---- MODULE Spec2Model ----
(***************************************************************************)
(* EasyClaude: the global hotkey engine (app/hotkey.py, HotkeyManager) and *)
(* the bounded directory history of the configuration (app/config.py).     *)
(*                                                                         *)
(* Strings that the code parses are sequences of one-character strings;    *)
(* pynput key objects are records (special, char, vk); directory paths are *)
(* opaque and are numbered: 0 is the empty string "", i >= 1 a distinct    *)
(* non-empty path.                                                         *)
(***************************************************************************)
EXTENDS Integers, Sequences, FiniteSets, TLC

\* ------------------------------------------------------------------------
\* Bounds of the exploration
\* ------------------------------------------------------------------------
\* number of callback submissions explored
MaxDispatch == 2
\* number of successful registrations (listeners / executors created)
MaxRegistrations == 2
\* number of distinct directory paths ever recorded
MaxPaths == 17
\* largest usage count explored
MaxUsage == 2
MaxCalls == 1
MaxSavePaths == 3
\* keys held down at the same time
MaxHeld == 3

\* ------------------------------------------------------------------------
\* pynput key objects
\* ------------------------------------------------------------------------
NoChar == ""
NoVk == 0

\* a member of the pynput Key enumeration
KeyMember(name) == [special |-> name, char |-> NoChar, vk |-> NoVk]

\* KeyCode.from_char / KeyCode.from_vk
FromChar(ch) == [special |-> "", char |-> ch, vk |-> NoVk]
FromVk(n) == [special |-> "", char |-> NoChar, vk |-> n]

\* isinstance(key, KeyCode)
IsKeyCode(key) == key.special = ""

\* ord(ch.upper()) for the alphabetic characters; 0 when ch is not in a..z
OrdUpper(ch) ==
    CASE ch = "a" -> 65 [] ch = "b" -> 66 [] ch = "c" -> 67 [] ch = "d" -> 68
      [] ch = "e" -> 69 [] ch = "f" -> 70 [] ch = "g" -> 71 [] ch = "h" -> 72
      [] ch = "i" -> 73 [] ch = "j" -> 74 [] ch = "k" -> 75 [] ch = "l" -> 76
      [] ch = "m" -> 77 [] ch = "n" -> 78 [] ch = "o" -> 79 [] ch = "p" -> 80
      [] ch = "q" -> 81 [] ch = "r" -> 82 [] ch = "s" -> 83 [] ch = "t" -> 84
      [] ch = "u" -> 85 [] ch = "v" -> 86 [] ch = "w" -> 87 [] ch = "x" -> 88
      [] ch = "y" -> 89 [] ch = "z" -> 90 [] OTHER -> 0

\* str.lower() on one character
LowerChar(ch) ==
    CASE ch = "A" -> "a" [] ch = "B" -> "b" [] ch = "C" -> "c" [] ch = "D" -> "d"
      [] ch = "E" -> "e" [] ch = "F" -> "f" [] ch = "G" -> "g" [] ch = "H" -> "h"
      [] ch = "I" -> "i" [] ch = "J" -> "j" [] ch = "K" -> "k" [] ch = "L" -> "l"
      [] ch = "M" -> "m" [] ch = "N" -> "n" [] ch = "O" -> "o" [] ch = "P" -> "p"
      [] ch = "Q" -> "q" [] ch = "R" -> "r" [] ch = "S" -> "s" [] ch = "T" -> "t"
      [] ch = "U" -> "u" [] ch = "V" -> "v" [] ch = "W" -> "w" [] ch = "X" -> "x"
      [] ch = "Y" -> "y" [] ch = "Z" -> "z" [] OTHER -> ch

\* a plausible slip: the table keeps the side of the modifier
ModifierAliasSided(name) ==
    CASE name \in {"ctrl", "ctrl_l"} -> "ctrl"
      [] name \in {"alt", "alt_l"} -> "alt"
      [] name \in {"shift", "shift_l"} -> "shift"
      [] name \in {"cmd", "cmd_l"} -> "cmd"
      [] name \in {"ctrl_r", "alt_r", "shift_r", "cmd_r"} -> name
      [] OTHER -> ""

\* the modifier_aliases table of _key_tokens: Key member -> side-independent name
ModifierAlias(name) ==
    CASE name \in {"ctrl", "ctrl_l", "ctrl_r"} -> "ctrl"
      [] name \in {"alt", "alt_l", "alt_r"} -> "alt"
      [] name \in {"shift", "shift_l", "shift_r"} -> "shift"
      [] name \in {"cmd", "cmd_l", "cmd_r"} -> "cmd"
      [] OTHER -> ""

\* HotkeyManager._key_tokens: the normalized tokens of a key object
KeyTokens(key) ==
    IF key.special # "" /\ ModifierAlias(key.special) # ""
    THEN {"mod:" \o ModifierAlias(key.special)}
    ELSE IF IsKeyCode(key)
         THEN (IF key.vk # NoVk THEN {"vk:" \o ToString(key.vk)} ELSE {})
              \cup
              (IF key.char # NoChar
               THEN LET ch == LowerChar(key.char)
                    IN  {"char:" \o ch}
                        \cup (IF OrdUpper(ch) # 0
                              THEN {"vk:" \o ToString(OrdUpper(ch))}
                              ELSE {})
               ELSE {})
         ELSE {}

\* ------------------------------------------------------------------------
\* Hotkey strings and _parse_hotkey
\* ------------------------------------------------------------------------
\* members of pynput's Key enumeration that getattr(Key, part) can find
KeyEnum ==
    { <<"c","t","r","l">>, <<"c","t","r","l","_","l">>, <<"c","t","r","l","_","r">>,
      <<"a","l","t">>, <<"a","l","t","_","l">>, <<"a","l","t","_","r">>,
      <<"s","h","i","f","t">>, <<"s","h","i","f","t","_","l">>,
      <<"s","h","i","f","t","_","r">>,
      <<"c","m","d">>, <<"c","m","d","_","l">>, <<"c","m","d","_","r">>,
      <<"f","1">>, <<"f","2">>, <<"e","s","c">>, <<"t","a","b">>,
      <<"e","n","t","e","r">>, <<"s","p","a","c","e">> }

\* attributes of the enumeration class that are not members: getattr(Key,
\* part) finds them as well
KeyClassAttributes == { <<"m","r","o">>, <<"_","_","d","o","c","_","_">> }

\* what getattr(Key, name) returns for such an attribute: neither a member
\* of Key nor a KeyCode
ClassAttribute(name) == [special |-> "Key." \o name, char |-> NoChar, vk |-> NoVk]

\* the attribute name spelled by a sequence of characters
RECURSIVE Join(_)
Join(chars) == IF chars = <<>> THEN "" ELSE Head(chars) \o Join(Tail(chars))

\* a slip: the string is parsed as it is written
LowerStrKept(s) == s

\* str.lower()
LowerStr(s) == [i \in 1..Len(s) |-> LowerChar(s[i])]

\* str.replace(" ", "")
RemoveSpaces(s) == SelectSeq(s, LAMBDA ch : ch # " ")

\* str.strip() leaves nothing (the alphabet's only whitespace is the space)
IsBlank(s) == \A i \in 1..Len(s) : s[i] = " "

\* str.split("+")
RECURSIVE SplitPlus(_)
SplitPlus(s) ==
    IF \A i \in 1..Len(s) : s[i] # "+"
    THEN <<s>>
    ELSE LET i == CHOOSE j \in 1..Len(s) :
                      s[j] = "+" /\ \A k \in 1..(j-1) : s[k] # "+"
         IN  <<SubSeq(s, 1, i-1)>> \o SplitPlus(SubSeq(s, i+1, Len(s)))

\* the marker of a part that names no key
NoKey == [special |-> "?", char |-> NoChar, vk |-> NoVk]

\* one iteration of the loop of _parse_hotkey: the key a part stands for
ParsePart(part) ==
    IF part \in {<<"c","t","r","l">>, <<"c","o","n","t","r","o","l">>}
    THEN KeyMember("ctrl_l")
    ELSE IF part = <<"a","l","t">> THEN KeyMember("alt_l")
    ELSE IF part = <<"s","h","i","f","t">> THEN KeyMember("shift_l")
    ELSE IF part \in {<<"c","m","d">>, <<"w","i","n">>, <<"m","e","t","a">>,
                      <<"c","o","m","m","a","n","d">>}
    THEN KeyMember("cmd")
    ELSE IF part \in {<<"c","m","d","_","r">>, <<"w","i","n","_","r">>,
                      <<"m","e","t","a","_","r">>}
    THEN KeyMember("cmd_r")
    ELSE IF part \in {<<"c","t","r","l","_","r">>,
                      <<"c","o","n","t","r","o","l","_","r">>}
    THEN KeyMember("ctrl_r")
    ELSE IF part = <<"a","l","t","_","r">> THEN KeyMember("alt_r")
    ELSE IF part = <<"s","h","i","f","t","_","r">> THEN KeyMember("shift_r")
    ELSE IF Len(part) = 1 THEN FromChar(part[1])
    ELSE IF part \in KeyEnum THEN KeyMember(Join(part))
    ELSE IF part \in KeyClassAttributes THEN ClassAttribute(Join(part))
    ELSE NoKey

\* _parse_hotkey as a function of the hotkey string: ok = FALSE when it
\* raises HotkeyValidationError, otherwise the tuple it stores
ParseHotkey(s) ==
    IF s = <<>> \/ IsBlank(s)
    THEN [ok |-> FALSE, combination |-> <<>>, invalid_keys |-> <<>>]
    ELSE LET parts == SplitPlus(RemoveSpaces(LowerStr(s)))
             keys == [i \in 1..Len(parts) |-> ParsePart(parts[i])]
             invalid_keys == SelectSeq(parts, LAMBDA p : ParsePart(p) = NoKey)
         IN  IF invalid_keys # <<>>
             THEN [ok |-> FALSE, combination |-> <<>>, invalid_keys |-> invalid_keys]
             ELSE IF keys = <<>>
             THEN [ok |-> FALSE, combination |-> <<>>, invalid_keys |-> <<>>]
             ELSE [ok |-> TRUE, combination |-> keys, invalid_keys |-> <<>>]

\* config.DEFAULT_HOTKEY
DEFAULT_HOTKEY == <<"c","t","r","l","+","a","l","t","+","c">>

\* hotkey strings handed to the constructor and to set_hotkey
CtrlRC == <<"c","t","r","l","_","r","+","c">>
CtrlPlus == <<"c","t","r","l","+">>
HotkeyInputs == {DEFAULT_HOTKEY, CtrlRC, CtrlPlus}

\* str.strip()
Strip(s) ==
    IF IsBlank(s)
    THEN <<>>
    ELSE LET first == CHOOSE i \in 1..Len(s) :
                          s[i] # " " /\ \A k \in 1..(i-1) : s[k] = " "
             last == CHOOSE j \in 1..Len(s) :
                         s[j] # " " /\ \A k \in (j+1)..Len(s) : s[k] = " "
         IN  SubSeq(s, first, last)

\* Config.validate_hotkey
ValidateHotkey(v) ==
    IF v = <<>> \/ IsBlank(v) THEN DEFAULT_HOTKEY ELSE LowerStr(Strip(v))

\* hotkey values found in a configuration file: the default, an empty one,
\* the default in capitals with blanks around it, and one naming an unknown
\* key
EmptyHotkey == <<>>
SpacedHotkey == <<" ","C","t","r","l","+","A","l","t","+","C"," ">>
CtrlFoo == <<"c","t","r","l","+","f","o","o">>
StoredHotkeys == {DEFAULT_HOTKEY, EmptyHotkey, SpacedHotkey, CtrlFoo}

\* str.upper() on one character: the sharp s becomes two letters
UpperChar(ch) ==
    CASE ch = "a" -> <<"A">> [] ch = "b" -> <<"B">> [] ch = "c" -> <<"C">>
      [] ch = "d" -> <<"D">> [] ch = "e" -> <<"E">> [] ch = "f" -> <<"F">>
      [] ch = "g" -> <<"G">> [] ch = "h" -> <<"H">> [] ch = "i" -> <<"I">>
      [] ch = "j" -> <<"J">> [] ch = "k" -> <<"K">> [] ch = "l" -> <<"L">>
      [] ch = "m" -> <<"M">> [] ch = "n" -> <<"N">> [] ch = "o" -> <<"O">>
      [] ch = "p" -> <<"P">> [] ch = "q" -> <<"Q">> [] ch = "r" -> <<"R">>
      [] ch = "s" -> <<"S">> [] ch = "t" -> <<"T">> [] ch = "u" -> <<"U">>
      [] ch = "v" -> <<"V">> [] ch = "w" -> <<"W">> [] ch = "x" -> <<"X">>
      [] ch = "y" -> <<"Y">> [] ch = "z" -> <<"Z">>
      [] ch = "ß" -> <<"S", "S">> [] OTHER -> <<ch>>

\* str.upper()
RECURSIVE UpperStr(_)
UpperStr(s) ==
    IF s = <<>> THEN <<>> ELSE UpperChar(Head(s)) \o UpperStr(Tail(s))

\* "+".join(parts) with a separator of one's choice
RECURSIVE JoinParts(_, _)
JoinParts(parts, sep) ==
    IF Len(parts) = 1 THEN Head(parts)
    ELSE Head(parts) \o sep \o JoinParts(Tail(parts), sep)

\* the string with a space at each end and around each "+"
Spaced(s) == <<" ">> \o JoinParts(SplitPlus(s), <<" ", "+", " ">>) \o <<" ">>

\* parts hotkey strings are written with: modifier aliases, right-side
\* modifiers, characters, a function key, a class attribute of Key, names
\* of no key, and the empty part
SpecParts ==
    { <<"c","t","r","l">>, <<"c","o","n","t","r","o","l","_","r">>,
      <<"a","l","t","_","r">>, <<"s","h","i","f","t">>,
      <<"w","i","n","_","r">>, <<"c">>, <<"ß">>, <<"f","1">>,
      <<"m","r","o">>, <<"f","o","o">>, <<"f","n">>, <<>> }

\* hotkey strings of one and of two parts, a blank one, and the ones the
\* tests use
Blank == <<" ", " ">>
JustText == <<"j","u","s","t","t","e","x","t">>
FnCtrlC == <<"f","n","+","c","t","r","l","+","c">>
BaseSpecs ==
    SpecParts
    \cup {p \o <<"+">> \o q : p \in SpecParts, q \in SpecParts}
    \cup {Blank, JustText, FnCtrlC, <<"c","t","r","l","+","a","l","t","+","c">>}

\* the same strings in capitals and with spaces added
ParseSpecs ==
    BaseSpecs \cup {UpperStr(s) : s \in BaseSpecs} \cup {Spaced(s) : s \in BaseSpecs}

\* a modifier name followed by "+c"
PlusC(name) == name \o <<"+", "c">>

\* hotkeys of one modifier and c: the modifier written with the suffix of
\* the right side, and written plainly
SidedPairs ==
    { [sided |-> PlusC(<<"c","t","r","l","_","r">>), plain |-> PlusC(<<"c","t","r","l">>)],
      [sided |-> PlusC(<<"a","l","t","_","r">>), plain |-> PlusC(<<"a","l","t">>)],
      [sided |-> PlusC(<<"s","h","i","f","t","_","r">>),
       plain |-> PlusC(<<"s","h","i","f","t">>)],
      [sided |-> PlusC(<<"c","m","d","_","r">>), plain |-> PlusC(<<"c","m","d">>)],
      [sided |-> PlusC(<<"w","i","n","_","r">>), plain |-> PlusC(<<"w","i","n">>)],
      [sided |-> PlusC(<<"m","e","t","a","_","r">>),
       plain |-> PlusC(<<"m","e","t","a">>)] }
SideHotkeys == {p.sided : p \in SidedPairs} \cup {p.plain : p \in SidedPairs}

\* hotkeys that name a special key, next to hotkeys of modifiers and a
\* character
CtrlF1 == <<"c","t","r","l","+","f","1">>
ShiftEsc == <<"s","h","i","f","t","+","e","s","c">>
FireHotkeys == {DEFAULT_HOTKEY, CtrlRC, CtrlF1, <<"f","1">>, ShiftEsc}

\* every string _parse_hotkey is called on
ParseInputs ==
    HotkeyInputs \cup {ValidateHotkey(h) : h \in StoredHotkeys} \cup ParseSpecs
    \cup SideHotkeys \cup FireHotkeys

\* key objects the keyboard hook delivers
CtrlL == KeyMember("ctrl_l")
CtrlR == KeyMember("ctrl_r")
AltL == KeyMember("alt_l")
AltR == KeyMember("alt_r")
CChar == FromChar("c")
CVk == FromVk(67)
F1 == KeyMember("f1")
HookKeys == {CtrlL, CtrlR, AltL, AltR, CChar, CVk, F1}

\* the modifier keys of both sides and the character c
ShiftL == KeyMember("shift_l")
ShiftR == KeyMember("shift_r")
CmdL == KeyMember("cmd")
CmdR == KeyMember("cmd_r")
SideKeys == {CtrlL, CtrlR, AltL, AltR, ShiftL, ShiftR, CmdL, CmdR, CChar}

\* _parse_hotkey and _key_tokens tabulated over the strings and keys in use
Parsed == [s \in ParseInputs |-> ParseHotkey(s)]
CombinationKeys ==
    UNION { {Parsed[s].combination[i] : i \in 1..Len(Parsed[s].combination)} :
            s \in ParseInputs }
Tokens == [k \in HookKeys \cup SideKeys \cup CombinationKeys |-> KeyTokens(k)]

\* callbacks handed to register; NoCallback is None
NoCallback == "None"
Callbacks == {"show_gui"}

\* ------------------------------------------------------------------------
\* State
\* ------------------------------------------------------------------------
VARIABLES
    hotkey_string,        \* self._hotkey_string
    hotkey_combination,   \* self._hotkey_combination (<<>> is None)
    callback,             \* self._callback
    listener,             \* self._listener: index into listeners, 0 is None
    pressed_keys,         \* self._pressed_keys
    pressed_key_tokens,   \* self._pressed_key_tokens
    active,               \* self._active
    executor,             \* self._executor: index into executors, 0 is None
    hotkey_latched,       \* self._hotkey_latched
    lock,                 \* self._lock: "free" or "held"
    listeners,            \* the keyboard.Listener objects created so far
    executors,            \* the ThreadPoolExecutor objects created so far
    dispatched,           \* number of safe_callback submissions so far
    submitted_to,         \* the executor each submission was handed to
    started,              \* invocations of the user callback, in start order
    cancelled,            \* submissions still queued when unregister ran
    skipped,              \* submissions that found self._callback None
    queued_behind,        \* submissions made while an invocation was running
    ret,                  \* what the last operation returned or raised
    scenario,             \* progress of the press sequence of the contract
    fires_in_hold,        \* submissions since the combination was last completed
    directory_history,    \* _config_cache.directory_history
    next_fresh,           \* the number of the next path never recorded so far
    fresh_run,            \* new paths recorded in a row since the history was
                          \* empty, -1 once anything else happened
    last_config_call,     \* the last call into the configuration module
    config_hotkey,        \* _config_cache.hotkey
    last_directory,       \* _config_cache.last_directory
    config_file,          \* the content of the configuration file
    config_lock,          \* _config_lock: the thread that holds it, 0 for none
    threads,              \* the threads that are inside a configuration call
    app,                  \* how far EasyClaudeApp() and its main thread got
    running,              \* EasyClaudeApp._running
    tray_running,         \* TrayManager._running
    icon,                 \* the pystray icon and its message loop
    tray_thread,          \* how far the thread of _run_tray_in_thread got
    gui,                  \* the launcher window
    cleanups,             \* how often shutdown went past its guard
    held                  \* the physical keys that are down

engine_vars ==
    <<hotkey_string, hotkey_combination, callback, listener, pressed_keys,
      pressed_key_tokens, active, executor, hotkey_latched, lock, listeners,
      executors, dispatched, submitted_to, started, cancelled, skipped,
      queued_behind, ret, scenario, fires_in_hold>>

\* the engine without the result of the last call
engine_state ==
    <<hotkey_string, hotkey_combination, callback, listener, pressed_keys,
      pressed_key_tokens, active, executor, hotkey_latched, lock, listeners,
      executors, dispatched, submitted_to, started, cancelled, skipped,
      queued_behind, scenario, fires_in_hold>>

history_vars == <<directory_history, next_fresh, fresh_run, last_config_call>>

\* the other fields of the cached configuration, its file and its lock
store_vars == <<config_hotkey, last_directory, config_file, config_lock, threads>>

\* the application around the engine: its flag, tray icon and window
shell_vars == <<running, tray_running, icon, tray_thread, gui, cleanups>>

\* everything the hotkey engine does not touch
config_vars == <<history_vars, store_vars, app, shell_vars>>

vars == <<engine_vars, history_vars, store_vars, app, shell_vars, held>>

\* ------------------------------------------------------------------------
\* Matching
\* ------------------------------------------------------------------------
\* the tokens of a set of key objects
TokensOf(keys) == UNION {Tokens[k] : k \in keys}

\* HotkeyManager._is_hotkey_pressed for a combination and a pressed-keys set
IsHotkeyPressed(combination, keys) ==
    /\ combination # <<>>
    /\ \A i \in 1..Len(combination) :
          /\ Tokens[combination[i]] # {}
          /\ Tokens[combination[i]] \cap TokensOf(keys) # {}

\* the combination is held in the current state
Satisfied == IsHotkeyPressed(hotkey_combination, pressed_keys)

\* ------------------------------------------------------------------------
\* The callback worker (concurrent.futures.ThreadPoolExecutor, max_workers=1)
\* ------------------------------------------------------------------------
\* ThreadPoolExecutor(max_workers=1): an empty work queue, an idle worker
NewExecutor == [queue |-> <<>>, running |-> 0, shutdown |-> FALSE, raised |-> FALSE]

\* a slip: the callback is called in the key handler, inside the with block
DispatchInline(execs, e, id) ==
    [executors |-> [execs EXCEPT ![e].running = id], lock |-> "held"]

\* a slip: a trigger is dropped while the worker is busy
DispatchDropBusy(execs, e, id) ==
    [executors |-> IF execs[e].running # 0 \/ execs[e].queue # <<>>
                   THEN execs
                   ELSE [execs EXCEPT ![e].queue = Append(@, id)],
     lock |-> "free"]

\* self._executor.submit(safe_callback), then the with block is left
Dispatch(execs, e, id) ==
    [executors |-> [execs EXCEPT ![e].queue = Append(@, id)], lock |-> "free"]

\* invocations of the user callback that are executing now
Running == {e \in 1..Len(executors) : executors[e].running # 0}

\* the submissions waiting in the queue of executor e
QueuedOn(e) == {executors[e].queue[i] : i \in 1..Len(executors[e].queue)}

\* ------------------------------------------------------------------------
\* Monitor of the press sequence ctrl_l, alt_l, c down, c up, c down
\* ------------------------------------------------------------------------
ScenarioEvents ==
    << <<"press", CtrlL>>, <<"press", AltL>>, <<"press", CChar>>,
       <<"release", CChar>>, <<"press", CChar>> >>

ScenarioOff == [pos |-> -1, fires |-> 0]

ScenarioStep(kind, key, fired) ==
    IF scenario.pos >= 0 /\ scenario.pos < Len(ScenarioEvents)
       /\ ScenarioEvents[scenario.pos + 1] = <<kind, key>>
    THEN [pos |-> scenario.pos + 1, fires |-> scenario.fires + (IF fired THEN 1 ELSE 0)]
    ELSE ScenarioOff

\* ------------------------------------------------------------------------
\* HotkeyManager.__init__
\* ------------------------------------------------------------------------
\* the fields __init__ sets besides the hotkey, and the bookkeeping of a
\* manager that has done nothing yet
FreshEngine ==
    /\ callback = NoCallback
    /\ listener = 0
    /\ pressed_keys = {}
    /\ pressed_key_tokens = {}
    /\ active = FALSE
    /\ executor = 0
    /\ hotkey_latched = FALSE
    /\ lock = "free"
    /\ listeners = <<>>
    /\ executors = <<>>
    /\ dispatched = 0
    /\ submitted_to = <<>>
    /\ started = <<>>
    /\ cancelled = {}
    /\ skipped = {}
    /\ queued_behind = {}
    /\ ret = "None"
    /\ scenario = ScenarioOff
    /\ fires_in_hold = 0

\* HotkeyManager(hotkey_string) for a string that parses
InitEngine ==
    /\ hotkey_string \in {s \in HotkeyInputs : Parsed[s].ok}
    /\ hotkey_combination = Parsed[hotkey_string].combination
    /\ FreshEngine

\* ------------------------------------------------------------------------
\* Key events
\* ------------------------------------------------------------------------
\* the two conditions of _on_press under which the callback is submitted
HotkeyTriggered(keys) ==
    /\ hotkey_combination # <<>>
    /\ callback # NoCallback
    /\ active
    /\ IsHotkeyPressed(hotkey_combination, keys)
    /\ ~hotkey_latched

\* a slip: a release leaves the latch alone
LatchAfterReleaseKept(keys) == hotkey_latched

\* the latch after _on_release has removed the key
LatchAfterRelease(keys) ==
    IF ~IsHotkeyPressed(hotkey_combination, keys) THEN FALSE ELSE hotkey_latched

\* HotkeyManager._on_press
OnPress(key) ==
    LET keys == pressed_keys \cup {key}
        fire == HotkeyTriggered(keys)
        d == Dispatch(executors, executor, dispatched + 1)
    IN  /\ lock = "free"
        /\ fire => dispatched < MaxDispatch /\ executor # 0
        /\ pressed_keys' = keys
        /\ pressed_key_tokens' = pressed_key_tokens \cup Tokens[key]
        /\ hotkey_latched' = (hotkey_latched \/ fire)
        /\ executors' = IF fire THEN d.executors ELSE executors
        /\ lock' = IF fire THEN d.lock ELSE "free"
        /\ dispatched' = IF fire THEN dispatched + 1 ELSE dispatched
        /\ submitted_to' = IF fire THEN Append(submitted_to, executor)
                           ELSE submitted_to
        /\ queued_behind' = IF fire /\ executors[executor].running # 0
                            THEN queued_behind \cup {dispatched + 1}
                            ELSE queued_behind
        /\ fires_in_hold' =
              IF active /\ IsHotkeyPressed(hotkey_combination, keys)
              THEN (IF active /\ Satisfied THEN fires_in_hold ELSE 0)
                   + (IF fire THEN 1 ELSE 0)
              ELSE 0
        /\ scenario' = ScenarioStep("press", key, fire)
        /\ ret' = "None"
        /\ UNCHANGED <<hotkey_string, hotkey_combination, callback, listener,
                       active, executor, listeners, started, cancelled, skipped>>
        /\ UNCHANGED config_vars

\* HotkeyManager._on_release
OnRelease(key) ==
    LET keys == pressed_keys \ {key}
    IN  /\ lock = "free"
        /\ pressed_keys' = keys
        /\ pressed_key_tokens' = pressed_key_tokens \ Tokens[key]
        /\ hotkey_latched' = LatchAfterRelease(keys)
        /\ fires_in_hold' =
              IF active /\ IsHotkeyPressed(hotkey_combination, keys)
              THEN fires_in_hold ELSE 0
        /\ scenario' = ScenarioStep("release", key, FALSE)
        /\ ret' = "None"
        /\ UNCHANGED <<hotkey_string, hotkey_combination, callback, listener,
                       active, executor, lock, listeners, executors, dispatched,
                       submitted_to,
                       started, cancelled, skipped, queued_behind>>
        /\ UNCHANGED config_vars

\* a key event delivered to the handlers, the keyboard itself left aside
KeyPress(key) == OnPress(key) /\ UNCHANGED held
KeyRelease(key) == OnRelease(key) /\ UNCHANGED held

\* ------------------------------------------------------------------------
\* register / unregister / set_hotkey
\* ------------------------------------------------------------------------
\* a slip: register does not look at self._active
RegisterUnguarded(cb) ==
    /\ lock = "free"
    /\ cb # NoCallback => Len(listeners) < MaxRegistrations
    /\ IF cb = NoCallback
       THEN /\ ret' = "False"
            /\ UNCHANGED <<callback, listener, active, executor, listeners,
                           executors, scenario, fires_in_hold>>
       ELSE /\ callback' = cb
            /\ executors' = IF executor = 0
                            THEN Append(executors, NewExecutor) ELSE executors
            /\ executor' = IF executor = 0 THEN Len(executors) + 1 ELSE executor
            /\ listeners' = Append(listeners, "running")
            /\ listener' = Len(listeners) + 1
            /\ active' = TRUE
            /\ ret' = "True"
            /\ scenario' = ScenarioOff
            /\ fires_in_hold' = 0
    /\ UNCHANGED <<hotkey_string, hotkey_combination, pressed_keys,
                   pressed_key_tokens, hotkey_latched, lock, dispatched,
                   submitted_to,
                   started, cancelled, skipped, queued_behind>>
    /\ UNCHANGED <<config_vars, held>>

\* HotkeyManager.register
Register(cb) ==
    /\ lock = "free"
    /\ (~active /\ cb # NoCallback) => Len(listeners) < MaxRegistrations
    /\ IF active \/ cb = NoCallback
       THEN /\ ret' = "False"
            /\ UNCHANGED <<callback, listener, active, executor, listeners,
                           executors, scenario, fires_in_hold>>
       ELSE /\ callback' = cb
            /\ executors' = IF executor = 0
                            THEN Append(executors, NewExecutor) ELSE executors
            /\ executor' = IF executor = 0 THEN Len(executors) + 1 ELSE executor
            /\ listeners' = Append(listeners, "running")
            /\ listener' = Len(listeners) + 1
            /\ active' = TRUE
            /\ ret' = "True"
            /\ scenario' = IF pressed_keys = {} /\ hotkey_string = DEFAULT_HOTKEY
                           THEN [pos |-> 0, fires |-> 0] ELSE ScenarioOff
            /\ fires_in_hold' = 0
    /\ UNCHANGED <<hotkey_string, hotkey_combination, pressed_keys,
                   pressed_key_tokens, hotkey_latched, lock, dispatched,
                   submitted_to,
                   started, cancelled, skipped, queued_behind>>
    /\ UNCHANGED <<config_vars, held>>

\* the listener and executor objects after the two if blocks of unregister
StoppedListeners ==
    IF listener # 0 THEN [listeners EXCEPT ![listener] = "stopped"] ELSE listeners

ShutDownExecutors ==
    IF executor # 0 THEN [executors EXCEPT ![executor].shutdown = TRUE] ELSE executors

\* the submissions that unregister finds waiting in the queue
PendingAtUnregister == IF executor # 0 THEN QueuedOn(executor) ELSE {}

\* a slip: the engine is left marked active
UnregisterStaysActive ==
    /\ lock = "free"
    /\ listeners' = StoppedListeners
    /\ listener' = 0
    /\ executors' = ShutDownExecutors
    /\ executor' = 0
    /\ callback' = NoCallback
    /\ hotkey_latched' = FALSE
    /\ pressed_keys' = {}
    /\ pressed_key_tokens' = {}
    /\ cancelled' = cancelled \cup PendingAtUnregister
    /\ scenario' = ScenarioOff
    /\ fires_in_hold' = 0
    /\ ret' = "None"
    /\ UNCHANGED <<hotkey_string, hotkey_combination, lock, dispatched,
                   submitted_to, started, skipped, queued_behind, active>>
    /\ UNCHANGED <<config_vars, held>>

\* a slip: the pressed keys are not cleared
UnregisterKeepsKeys ==
    /\ lock = "free"
    /\ listeners' = StoppedListeners
    /\ listener' = 0
    /\ executors' = ShutDownExecutors
    /\ executor' = 0
    /\ callback' = NoCallback
    /\ active' = FALSE
    /\ hotkey_latched' = FALSE
    /\ cancelled' = cancelled \cup PendingAtUnregister
    /\ scenario' = ScenarioOff
    /\ fires_in_hold' = 0
    /\ ret' = "None"
    /\ UNCHANGED <<hotkey_string, hotkey_combination, lock, dispatched,
                   submitted_to, started, skipped, queued_behind,
                   pressed_keys, pressed_key_tokens>>
    /\ UNCHANGED <<config_vars, held>>

\* HotkeyManager.unregister
Unregister ==
    /\ lock = "free"
    /\ listeners' = StoppedListeners
    /\ listener' = 0
    /\ executors' = ShutDownExecutors
    /\ executor' = 0
    /\ callback' = NoCallback
    /\ active' = FALSE
    /\ hotkey_latched' = FALSE
    /\ pressed_keys' = {}
    /\ pressed_key_tokens' = {}
    /\ cancelled' = cancelled \cup PendingAtUnregister
    /\ scenario' = ScenarioOff
    /\ fires_in_hold' = 0
    /\ ret' = "None"
    /\ UNCHANGED <<hotkey_string, hotkey_combination, lock, dispatched,
                   submitted_to, started, skipped, queued_behind>>
    /\ UNCHANGED <<config_vars, held>>

\* a slip: the engine is not registered again after the change
SetHotkeyNoReregister(s) ==
    LET was_active == active
        saved_callback == callback
        parsed == Parsed[s]
        restored == Parsed[hotkey_string]
        reregister == FALSE
    IN  /\ lock = "free"
        /\ reregister => Len(listeners) < MaxRegistrations
        /\ hotkey_string' = IF parsed.ok THEN s ELSE hotkey_string
        /\ hotkey_combination' =
              IF parsed.ok THEN parsed.combination
              ELSE IF restored.ok THEN restored.combination
              ELSE hotkey_combination
        /\ ret' = IF ~parsed.ok THEN "HotkeyValidationError" ELSE "True"
        /\ IF was_active
           THEN /\ hotkey_latched' = FALSE
                /\ pressed_keys' = {}
                /\ pressed_key_tokens' = {}
                /\ cancelled' = cancelled \cup PendingAtUnregister
                /\ scenario' = ScenarioOff
                /\ fires_in_hold' = 0
                /\ IF reregister
                   THEN /\ callback' = saved_callback
                        /\ executors' = Append(ShutDownExecutors, NewExecutor)
                        /\ executor' = Len(executors) + 1
                        /\ listeners' = Append(StoppedListeners, "running")
                        /\ listener' = Len(listeners) + 1
                        /\ active' = TRUE
                   ELSE /\ callback' = NoCallback
                        /\ executors' = ShutDownExecutors
                        /\ executor' = 0
                        /\ listeners' = StoppedListeners
                        /\ listener' = 0
                        /\ active' = FALSE
           ELSE UNCHANGED <<hotkey_latched, pressed_keys, pressed_key_tokens,
                            cancelled, scenario, fires_in_hold, callback,
                            executors, executor, listeners, listener, active>>
        /\ UNCHANGED <<lock, dispatched, submitted_to, started, skipped, queued_behind>>
        /\ UNCHANGED <<config_vars, held>>

\* HotkeyManager.set_hotkey
SetHotkey(s) ==
    LET was_active == active
        saved_callback == callback
        parsed == Parsed[s]
        restored == Parsed[hotkey_string]
        reregister == parsed.ok /\ was_active /\ saved_callback # NoCallback
    IN  /\ lock = "free"
        /\ reregister => Len(listeners) < MaxRegistrations
        /\ hotkey_string' = IF parsed.ok THEN s ELSE hotkey_string
        /\ hotkey_combination' =
              IF parsed.ok THEN parsed.combination
              ELSE IF restored.ok THEN restored.combination
              ELSE hotkey_combination
        /\ ret' = IF ~parsed.ok THEN "HotkeyValidationError" ELSE "True"
        /\ IF was_active
           THEN /\ hotkey_latched' = FALSE
                /\ pressed_keys' = {}
                /\ pressed_key_tokens' = {}
                /\ cancelled' = cancelled \cup PendingAtUnregister
                /\ scenario' = ScenarioOff
                /\ fires_in_hold' = 0
                /\ IF reregister
                   THEN /\ callback' = saved_callback
                        /\ executors' = Append(ShutDownExecutors, NewExecutor)
                        /\ executor' = Len(executors) + 1
                        /\ listeners' = Append(StoppedListeners, "running")
                        /\ listener' = Len(listeners) + 1
                        /\ active' = TRUE
                   ELSE /\ callback' = NoCallback
                        /\ executors' = ShutDownExecutors
                        /\ executor' = 0
                        /\ listeners' = StoppedListeners
                        /\ listener' = 0
                        /\ active' = FALSE
           ELSE UNCHANGED <<hotkey_latched, pressed_keys, pressed_key_tokens,
                            cancelled, scenario, fires_in_hold, callback,
                            executors, executor, listeners, listener, active>>
        /\ UNCHANGED <<lock, dispatched, submitted_to, started, skipped, queued_behind>>
        /\ UNCHANGED <<config_vars, held>>

\* ------------------------------------------------------------------------
\* The worker thread of an executor
\* ------------------------------------------------------------------------
\* the worker takes the next safe_callback from the queue and runs it up to
\* the call self._callback(); with self._callback None the call raises
\* TypeError, which safe_callback catches
WorkerStart(e) ==
    /\ executors[e].running = 0
    /\ executors[e].queue # <<>>
    /\ LET id == Head(executors[e].queue)
       IN  IF callback = NoCallback
           THEN /\ executors' = [executors EXCEPT ![e].queue = Tail(@)]
                /\ skipped' = skipped \cup {id}
                /\ UNCHANGED started
           ELSE /\ executors' = [executors EXCEPT ![e].queue = Tail(@),
                                                  ![e].running = id]
                /\ started' = Append(started, id)
                /\ UNCHANGED skipped
    /\ UNCHANGED <<hotkey_string, hotkey_combination, callback, listener,
                   pressed_keys, pressed_key_tokens, active, executor,
                   hotkey_latched, lock, listeners, dispatched, submitted_to,
                   cancelled, queued_behind, ret, scenario, fires_in_hold>>
    /\ UNCHANGED <<config_vars, held>>

\* the user callback returns
WorkerFinish(e) ==
    /\ executors[e].running # 0
    /\ executors' = [executors EXCEPT ![e].running = 0]
    /\ UNCHANGED <<hotkey_string, hotkey_combination, callback, listener,
                   pressed_keys, pressed_key_tokens, active, executor,
                   hotkey_latched, lock, listeners, dispatched, submitted_to,
                   started,
                   cancelled, skipped, queued_behind, ret, scenario, fires_in_hold>>
    /\ UNCHANGED <<config_vars, held>>

\* a slip: the exception is not caught and ends the worker
CallbackRaisedUncaught(ex) ==
    [ex EXCEPT !.running = 0, !.raised = TRUE, !.shutdown = TRUE]

\* the executor after self._callback() raised: safe_callback catches and
\* logs the exception and returns, the worker takes the next item
CallbackRaised(ex) == [ex EXCEPT !.running = 0, !.raised = TRUE]

\* the user callback raises an exception
WorkerRaise(e) ==
    /\ executors[e].running # 0
    /\ executors' = [executors EXCEPT ![e] = CallbackRaised(@)]
    /\ UNCHANGED <<hotkey_string, hotkey_combination, callback, listener,
                   pressed_keys, pressed_key_tokens, active, executor,
                   hotkey_latched, lock, listeners, dispatched, submitted_to,
                   started,
                   cancelled, skipped, queued_behind, ret, scenario, fires_in_hold>>
    /\ UNCHANGED <<config_vars, held>>

\* ------------------------------------------------------------------------
\* The directory history of the configuration (app/config.py)
\* ------------------------------------------------------------------------
DEFAULT_MAX_HISTORY_ENTRIES == 15

EmptyPath == 0
NotAString == -1

\* DirectoryEntry(path=..., usage_count=...); last_used is a wall-clock
\* timestamp that no operation reads and is left out
DirectoryEntry(path, usage_count) == [path |-> path, usage_count |-> usage_count]

PathsOf(history) == {history[i].path : i \in 1..Len(history)}

\* path in {e.path for e in entries} / path in seen_paths
HasPath(entries, path) == \E i \in 1..Len(entries) : entries[i].path = path

\* a slip: every non-empty string becomes an entry, duplicates included
MigrateLegacyNoDedup(v, i, migrated) ==
    LET strs == SelectSeq(v, LAMBDA p : p.kind = "str" /\ p.path # EmptyPath)
    IN  [k \in 1..(IF Len(strs) < DEFAULT_MAX_HISTORY_ENTRIES
                   THEN Len(strs) ELSE DEFAULT_MAX_HISTORY_ENTRIES) |->
            DirectoryEntry(strs[k].path, 1)]

\* the legacy branch of validate_directory_history: a list of path strings,
\* read from its i-th item on with the entries migrated so far
RECURSIVE MigrateLegacy(_, _, _)
MigrateLegacy(v, i, migrated) ==
    IF i > Len(v)
    THEN migrated
    ELSE LET path == v[i]
             next == IF path.kind = "str" /\ path.path # EmptyPath
                        /\ ~HasPath(migrated, path.path)
                     THEN Append(migrated, DirectoryEntry(path.path, 1))
                     ELSE migrated
         IN  IF Len(next) >= DEFAULT_MAX_HISTORY_ENTRIES
             THEN next
             ELSE MigrateLegacy(v, i + 1, next)

\* a slip: duplicates, empty paths and the length are not looked at
CleanEntriesKeepAll(v, i, result) ==
    [ok |-> TRUE,
     history |-> [k \in 1..Len(v) |-> DirectoryEntry(v[k].path, v[k].usage_count)]]

\* the main loop of validate_directory_history over dicts and DirectoryEntry
\* objects, from the i-th item on with the result so far; ok = FALSE when
\* DirectoryEntry(...) rejects a usage_count < 1
RECURSIVE CleanEntries(_, _, _)
CleanEntries(v, i, result) ==
    IF i > Len(v)
    THEN [ok |-> TRUE, history |-> result]
    ELSE LET entry == v[i]
         IN  IF entry.kind \notin {"dict", "DirectoryEntry"}
             THEN CleanEntries(v, i + 1, result)
             ELSE IF entry.path = EmptyPath \/ entry.path = NotAString
             THEN CleanEntries(v, i + 1, result)
             ELSE IF HasPath(result, entry.path)
             THEN CleanEntries(v, i + 1, result)
             ELSE IF entry.usage_count < 1
             THEN [ok |-> FALSE, history |-> <<>>]
             ELSE IF Len(result) + 1 >= DEFAULT_MAX_HISTORY_ENTRIES
             THEN [ok |-> TRUE,
                   history |-> Append(result, DirectoryEntry(entry.path,
                                                             entry.usage_count))]
             ELSE CleanEntries(v, i + 1,
                               Append(result, DirectoryEntry(entry.path,
                                                             entry.usage_count)))

\* Config.validate_directory_history on a raw value
ValidateDirectoryHistory(v) ==
    IF ~v.is_list
    THEN [ok |-> TRUE, history |-> <<>>]
    ELSE IF v.items # <<>> /\ v.items[1].kind = "str"
    THEN [ok |-> TRUE, history |-> MigrateLegacy(v.items, 1, <<>>)]
    ELSE CleanEntries(v.items, 1, <<>>)

\* raw values as json.load delivers them
RawList(items) == [is_list |-> TRUE, items |-> items]
RawDict(path, usage_count) ==
    [kind |-> "dict", path |-> path, usage_count |-> usage_count]
RawStr(path) == [kind |-> "str", path |-> path, usage_count |-> 0]
RawOther == [kind |-> "int", path |-> NotAString, usage_count |-> 0]

\* a list of DirectoryEntry objects as a raw value
AsRaw(history) ==
    RawList([i \in 1..Len(history) |->
                [kind |-> "DirectoryEntry", path |-> history[i].path,
                 usage_count |-> history[i].usage_count]])

\* load_config: Config(**data), or Config() when validation raises
LoadHistory(v) ==
    LET r == ValidateDirectoryHistory(v)
    IN  IF r.ok THEN r.history ELSE <<>>

\* a Config object: the fields the application reads and writes
ConfigOf(hotkey, directory, history) ==
    [hotkey |-> hotkey, last_directory |-> directory, directory_history |-> history]

\* Config(): every field at its default
DefaultConfig == ConfigOf(DEFAULT_HOTKEY, EmptyPath, <<>>)

\* Config.model_dump() as json.dump writes it: entries become dicts
ModelDump(config) ==
    [hotkey |-> config.hotkey,
     last_directory |-> config.last_directory,
     directory_history |->
        RawList([i \in 1..Len(config.directory_history) |->
                    RawDict(config.directory_history[i].path,
                            config.directory_history[i].usage_count)])]

\* Config(**data): ok = FALSE when a validator raises
ValidateConfig(data) ==
    LET r == ValidateDirectoryHistory(data.directory_history)
    IN  [ok |-> r.ok,
         config |-> ConfigOf(ValidateHotkey(data.hotkey), data.last_directory,
                             r.history)]

\* load_config on an existing file: Config(**data), or Config() when
\* validation raises
LoadConfig(data) ==
    LET r == ValidateConfig(data)
    IN  IF r.ok THEN r.config ELSE DefaultConfig

\* the cached configuration
CachedConfig == ConfigOf(config_hotkey, last_directory, directory_history)

\* a configuration file with the given hotkey and history values
PersistedFile(hotkey, v) ==
    [hotkey |-> hotkey, last_directory |-> EmptyPath, directory_history |-> v]

\* threads that call into the configuration module
Threads == {1, 2}

\* a thread that is outside every configuration call
IdleThread == [pc |-> "idle", op |-> "", arg |-> EmptyPath,
               config |-> DefaultConfig, calls |-> 0, overlapped |-> FALSE]

\* persisted directory_history values the configuration is constructed from
PersistedInputs ==
    { RawList(<<>>),
      [is_list |-> FALSE, items |-> <<>>],
      RawList([i \in 1..(DEFAULT_MAX_HISTORY_ENTRIES + 1) |-> RawDict(i, 1)]),
      RawList(<<RawDict(1, 1), RawDict(1, 2), RawDict(EmptyPath, 1), RawOther,
                RawDict(NotAString, 1), RawStr(2), RawDict(2, 2)>>),
      RawList(<<RawDict(1, 1), RawDict(2, 0)>>),
      RawList(<<RawStr(1), RawStr(2), RawStr(1), RawStr(EmptyPath), RawOther>>),
      RawList([i \in 1..(DEFAULT_MAX_HISTORY_ENTRIES + 3) |->
                  IF i = 9 THEN RawStr(EmptyPath)
                  ELSE IF i = 10 THEN RawStr(3)
                  ELSE IF i < 9 THEN RawStr(i) ELSE RawStr(i - 2)]) }

\* the largest path number of a history
MaxPathIn(history) ==
    LET ps == PathsOf(history) \cup {0}
    IN  CHOOSE m \in ps : \A q \in ps : q <= m

ConfigCall(op, directory) == [op |-> op, directory |-> directory]

\* no EasyClaudeApp object exists: no flag, tray icon or window, and no key
\* of the keyboard is down
NoShell ==
    /\ running = FALSE
    /\ tray_running = FALSE
    /\ icon = "none"
    /\ tray_thread = "none"
    /\ gui = "none"
    /\ cleanups = 0
    /\ held = {}

\* get_config on first use: the cache is what load_config returns for the
\* file, the lock is free and no thread is inside a call
InitStore(file) ==
    /\ config_file = file
    /\ config_hotkey = LoadConfig(file).hotkey
    /\ last_directory = LoadConfig(file).last_directory
    /\ directory_history = LoadConfig(file).directory_history
    /\ next_fresh = MaxPathIn(LoadConfig(file).directory_history) + 1
    /\ fresh_run = IF LoadConfig(file).directory_history = <<>> THEN 0 ELSE -1
    /\ last_config_call = ConfigCall("load_config", EmptyPath)
    /\ config_lock = 0
    /\ threads = [t \in Threads |-> IdleThread]

InitHistory ==
    /\ \E v \in PersistedInputs : InitStore(PersistedFile(DEFAULT_HOTKEY, v))
    /\ app = "none"
    /\ NoShell

\* the index add_directory_to_history finds for a path, 0 for none
ExistingIndex(history, directory) ==
    IF directory \in PathsOf(history)
    THEN CHOOSE i \in 1..Len(history) :
            /\ history[i].path = directory
            /\ \A j \in 1..(i-1) : history[j].path # directory
    ELSE 0

\* a slip: a path recorded again is moved to the front with its count reset
NewHistoryResetCount(history, directory) ==
    LET untrimmed == <<DirectoryEntry(directory, 1)>>
                     \o SelectSeq(history, LAMBDA e : e.path # directory)
    IN  SubSeq(untrimmed, 1,
               IF Len(untrimmed) < DEFAULT_MAX_HISTORY_ENTRIES
               THEN Len(untrimmed) ELSE DEFAULT_MAX_HISTORY_ENTRIES)

\* a slip: a full history drops its newest entries instead of its oldest
NewHistoryTrimHead(history, directory) ==
    LET untrimmed == <<DirectoryEntry(directory, 1)>>
                     \o SelectSeq(history, LAMBDA e : e.path # directory)
    IN  IF Len(untrimmed) <= DEFAULT_MAX_HISTORY_ENTRIES
        THEN untrimmed
        ELSE <<untrimmed[1]>>
             \o SubSeq(untrimmed, 3, Len(untrimmed))

\* new_history of add_directory_to_history, trimmed to the maximum
NewHistory(history, directory) ==
    LET existing_index == ExistingIndex(history, directory)
        untrimmed ==
            IF existing_index > 0
            THEN <<DirectoryEntry(directory,
                                   history[existing_index].usage_count + 1)>>
                 \o SelectSeq(history, LAMBDA e : e.path # directory)
            ELSE <<DirectoryEntry(directory, 1)>> \o history
    IN  SubSeq(untrimmed, 1,
               IF Len(untrimmed) < DEFAULT_MAX_HISTORY_ENTRIES
               THEN Len(untrimmed) ELSE DEFAULT_MAX_HISTORY_ENTRIES)

\* the paths an operation is called with: the empty string, the path that
\* was recorded first (it is recorded again and removed), and a path that
\* was never recorded
PathInputs == {EmptyPath, 1, next_fresh}

\* the step is the call op(directory) into the configuration module
IsConfigCall(op, directory) ==
    /\ last_config_call' = ConfigCall(op, directory)
    /\ UNCHANGED engine_state

\* add_directory_to_history(directory); save_ok is the result of save_config
AddDirectoryToHistory(directory, save_ok) ==
    \E validated \in {ValidateDirectoryHistory(
                          AsRaw(NewHistory(directory_history, directory)))} :
        /\ config_lock = 0
        /\ directory = next_fresh => next_fresh <= MaxPaths
        /\ \A i \in 1..Len(directory_history) :
              directory_history[i].path = directory =>
                  directory_history[i].usage_count < MaxUsage
        /\ validated.ok
        /\ directory_history' = validated.history
        /\ next_fresh' = IF directory = next_fresh THEN next_fresh + 1
                         ELSE next_fresh
        /\ fresh_run' = IF validated.history = <<>> THEN 0
                        ELSE IF directory = next_fresh /\ fresh_run >= 0
                        THEN fresh_run + 1
                        ELSE -1
        /\ config_hotkey' = ValidateHotkey(config_hotkey)
        /\ config_file' =
              IF save_ok
              THEN ModelDump(ConfigOf(ValidateHotkey(config_hotkey),
                                      last_directory, validated.history))
              ELSE config_file
        /\ ret' = IF save_ok THEN "True" ELSE "False"
        /\ last_config_call' = ConfigCall("add_directory_to_history", directory)
        /\ UNCHANGED <<engine_state, last_directory, config_lock, threads, app,
         shell_vars, held>>

\* a slip: the lengths are not compared, an absent path is saved as well
RemoveFromHistoryNoCompare(directory, save_ok) ==
    \E validated \in
          {ValidateDirectoryHistory(
               AsRaw(SelectSeq(directory_history,
                               LAMBDA e : e.path # directory)))} :
        /\ config_lock = 0
        /\ validated.ok
        /\ directory_history' = validated.history
        /\ fresh_run' = IF validated.history = <<>> THEN 0 ELSE -1
        /\ config_hotkey' = ValidateHotkey(config_hotkey)
        /\ config_file' =
              IF save_ok
              THEN ModelDump(ConfigOf(ValidateHotkey(config_hotkey),
                                      last_directory, validated.history))
              ELSE config_file
        /\ ret' = IF save_ok THEN "True" ELSE "False"
        /\ last_config_call' = ConfigCall("remove_from_history", directory)
        /\ UNCHANGED <<engine_state, next_fresh, last_directory, config_lock,
                       threads, app, shell_vars, held>>

\* remove_from_history(directory)
RemoveFromHistory(directory, save_ok) ==
    \E new_history \in
          {SelectSeq(directory_history, LAMBDA e : e.path # directory)} :
    \E validated \in {ValidateDirectoryHistory(AsRaw(new_history))} :
        /\ config_lock = 0
        /\ IF Len(new_history) = Len(directory_history)
           THEN /\ ret' = "False"
                /\ UNCHANGED <<directory_history, fresh_run, config_hotkey,
                               config_file>>
           ELSE /\ validated.ok
                /\ directory_history' = validated.history
                /\ fresh_run' = IF validated.history = <<>> THEN 0 ELSE -1
                /\ config_hotkey' = ValidateHotkey(config_hotkey)
                /\ config_file' =
                      IF save_ok
                      THEN ModelDump(ConfigOf(ValidateHotkey(config_hotkey),
                                              last_directory, validated.history))
                      ELSE config_file
                /\ ret' = IF save_ok THEN "True" ELSE "False"
        /\ last_config_call' = ConfigCall("remove_from_history", directory)
        /\ UNCHANGED <<engine_state, next_fresh, last_directory, config_lock,
                       threads, app, shell_vars, held>>

\* clear_history()
ClearHistory(save_ok) ==
    /\ config_lock = 0
    /\ directory_history' = ValidateDirectoryHistory(AsRaw(<<>>)).history
    /\ fresh_run' = 0
    /\ config_hotkey' = ValidateHotkey(config_hotkey)
    /\ config_file' =
          IF save_ok
          THEN ModelDump(ConfigOf(ValidateHotkey(config_hotkey), last_directory,
                                  ValidateDirectoryHistory(AsRaw(<<>>)).history))
          ELSE config_file
    /\ ret' = IF save_ok THEN "True" ELSE "False"
    /\ last_config_call' = ConfigCall("clear_history", EmptyPath)
    /\ UNCHANGED <<engine_state, next_fresh, last_directory, config_lock,
                   threads, app, shell_vars, held>>

\* ------------------------------------------------------------------------
\* Configuration calls made by concurrent threads
\* ------------------------------------------------------------------------
\* update_config(last_directory=directory) on a configuration
UpdatedConfig(config, directory) ==
    ValidateConfig([ModelDump(config) EXCEPT !.last_directory = directory]).config

\* the configuration a call computes from the configuration it has read
ApplyCall(op, arg, config) ==
    CASE op = "add_directory_to_history" ->
            ConfigOf(ValidateHotkey(config.hotkey), config.last_directory,
                     ValidateDirectoryHistory(
                         AsRaw(NewHistory(config.directory_history, arg))).history)
      [] op = "remove_from_history" ->
            IF arg \in PathsOf(config.directory_history)
            THEN ConfigOf(ValidateHotkey(config.hotkey), config.last_directory,
                          ValidateDirectoryHistory(
                              AsRaw(SelectSeq(config.directory_history,
                                              LAMBDA e : e.path # arg))).history)
            ELSE config
      [] op = "update_config" -> UpdatedConfig(config, arg)
      [] OTHER -> config

\* a path only thread t records
ThreadPath(t) == DEFAULT_MAX_HISTORY_ENTRIES + 1 + t

\* the calls thread t makes: it records its own path, removes the path that
\* was recorded first, or stores its last directory
ThreadCalls(t) ==
    { [op |-> "add_directory_to_history", arg |-> ThreadPath(t)],
      [op |-> "remove_from_history", arg |-> 1],
      [op |-> "update_config", arg |-> t] }

\* a slip: the with block does not wait for the lock
CanAcquireAlways(t) == TRUE

\* with _config_lock: the RLock is free or already held by the thread
CanAcquire(t) == config_lock \in {0, t}

\* thread t enters add_directory_to_history, remove_from_history or
\* update_config
ThreadCall(t, call) ==
    /\ threads[t].pc = "idle"
    /\ threads[t].calls < MaxCalls
    /\ threads' = [threads EXCEPT ![t].pc = "acquire",
                                  ![t].op = call.op,
                                  ![t].arg = call.arg,
                                  ![t].overlapped =
                                      \E u \in Threads \ {t} :
                                          threads[u].pc # "idle"]
    /\ UNCHANGED <<engine_vars, history_vars, config_hotkey, last_directory,
                   config_file, config_lock, app,
                   shell_vars, held>>

\* with _config_lock:
ThreadAcquire(t) ==
    /\ threads[t].pc = "acquire"
    /\ CanAcquire(t)
    /\ config_lock' = t
    /\ threads' = [threads EXCEPT ![t].pc = "locked"]
    /\ UNCHANGED <<engine_vars, history_vars, config_hotkey, last_directory,
                   config_file, app,
                   shell_vars, held>>

\* config = get_config()
ThreadRead(t) ==
    /\ threads[t].pc = "locked"
    /\ threads' = [threads EXCEPT ![t].pc = "read", ![t].config = CachedConfig]
    /\ UNCHANGED <<engine_vars, history_vars, config_hotkey, last_directory,
                   config_file, config_lock, app,
                   shell_vars, held>>

\* _config_cache = Config(...); save_config(_config_cache); a remove of an
\* absent path returns before both
ThreadWrite(t) ==
    \E new \in {ApplyCall(threads[t].op, threads[t].arg, threads[t].config)} :
        /\ threads[t].pc = "read"
        /\ threads' = [threads EXCEPT ![t].pc = "written"]
        /\ IF /\ threads[t].op = "remove_from_history"
              /\ threads[t].arg \notin PathsOf(threads[t].config.directory_history)
           THEN /\ ret' = "False"
                /\ UNCHANGED <<directory_history, config_hotkey, last_directory,
                               config_file, fresh_run>>
           ELSE /\ directory_history' = new.directory_history
                /\ config_hotkey' = new.hotkey
                /\ last_directory' = new.last_directory
                /\ config_file' = ModelDump(new)
                /\ fresh_run' = IF new.directory_history = <<>> THEN 0 ELSE -1
                /\ ret' = "True"
        /\ last_config_call' = ConfigCall(threads[t].op, threads[t].arg)
        /\ UNCHANGED <<engine_state, next_fresh, config_lock, app,
                   shell_vars, held>>

\* the with block is left
ThreadRelease(t) ==
    /\ threads[t].pc = "written"
    /\ config_lock' = 0
    /\ threads' = [threads EXCEPT ![t].pc = "idle", ![t].calls = @ + 1]
    /\ UNCHANGED <<engine_vars, history_vars, config_hotkey, last_directory,
                   config_file, app,
                   shell_vars, held>>

\* ------------------------------------------------------------------------
\* Specifications
\* ------------------------------------------------------------------------
\* the configuration with its default (empty) history
DefaultHistory ==
    /\ InitStore(ModelDump(DefaultConfig))
    /\ app = "none"
    /\ NoShell

Init == InitEngine /\ DefaultHistory

\* the engine under the whole keyboard; submissions stay in the queues
Next ==
    \/ \E key \in HookKeys : KeyPress(key)
    \/ \E key \in HookKeys : KeyRelease(key)
    \/ \E cb \in Callbacks \cup {NoCallback} : Register(cb)
    \/ Unregister
    \/ \E s \in HotkeyInputs : SetHotkey(s)

Spec == Init /\ [][Next]_vars

\* the engine of the default hotkey with its worker threads, under the keys
\* of that hotkey and the application's callback
WorkerKeys == {CtrlL, AltL, CChar}
WorkerHotkeyInputs == {DEFAULT_HOTKEY, CtrlPlus}

InitWorkers == Init /\ hotkey_string = DEFAULT_HOTKEY

\* the worker thread of the e-th executor, if that executor exists
WorkerStartOf(e) == e \in 1..Len(executors) /\ WorkerStart(e)
WorkerFinishOf(e) == e \in 1..Len(executors) /\ WorkerFinish(e)

NextWorkers ==
    \/ \E key \in WorkerKeys : KeyPress(key)
    \/ \E key \in WorkerKeys : KeyRelease(key)
    \/ \E cb \in Callbacks \cup {NoCallback} : Register(cb)
    \/ Unregister
    \/ \E s \in WorkerHotkeyInputs : SetHotkey(s)
    \/ \E e \in 1..MaxRegistrations : WorkerStartOf(e)
    \/ \E e \in 1..MaxRegistrations : WorkerFinishOf(e)

SpecWorkers == InitWorkers /\ [][NextWorkers]_vars

\* the worker threads are scheduled and the callbacks terminate
SpecWorkersFair ==
    /\ SpecWorkers
    /\ \A e \in 1..MaxRegistrations : WF_vars(WorkerStartOf(e))
    /\ \A e \in 1..MaxRegistrations : WF_vars(WorkerFinishOf(e))

\* the configuration constructed from persisted data, and its history
\* operations; the engine is the one of the default hotkey
InitConfig ==
    /\ InitEngine
    /\ hotkey_string = DEFAULT_HOTKEY
    /\ InitHistory

\* the history operations while the configuration file can be written
NextHistory ==
    \/ \E d \in PathInputs : AddDirectoryToHistory(d, TRUE)
    \/ \E d \in PathInputs : RemoveFromHistory(d, TRUE)
    \/ ClearHistory(TRUE)

SpecHistory == InitConfig /\ [][NextHistory]_vars

\* ------------------------------------------------------------------------
\* Hotkey engine: firing
\* ------------------------------------------------------------------------
\* C1: on a registered engine the press that completes the combination
\* submits the callback exactly once, further press events while the keys
\* stay held submit nothing (at most one submission per hold), and the
\* sequence ctrl_l down, alt_l down, c down, c up, c down on a freshly
\* registered ctrl+alt+c engine gives exactly 2 submissions.
C1_SingleFirePerPress ==
    /\ [](fires_in_hold <= 1)
    /\ [](/\ scenario.pos = 3 => scenario.fires = 1
          /\ scenario.pos = 4 => scenario.fires = 1
          /\ scenario.pos = 5 => scenario.fires = 2)
    /\ [][/\ (active /\ ~Satisfied /\ Satisfied') =>
                dispatched' = dispatched + 1
          /\ (fires_in_hold >= 1 /\ fires_in_hold' >= 1) =>
                dispatched' = dispatched]_vars

\* the five events of the contract have been delivered and fired twice
C1_Witness == scenario.pos = 5 /\ scenario.fires = 2 /\ dispatched >= 2

\* C2: for ctrl+alt+c, one Ctrl key (either side), one Alt key (either side)
\* and the c key held together satisfy the combination, and releasing any
\* one of the three held keys leaves it unsatisfied.
C2_SideInsensitiveMatch ==
    /\ [](hotkey_string = DEFAULT_HOTKEY =>
            \A c \in {CtrlL, CtrlR}, a \in {AltL, AltR}, k \in {CChar, CVk} :
                {c, a, k} \subseteq pressed_keys => Satisfied)
    /\ [][(hotkey_string = DEFAULT_HOTKEY /\ Satisfied) =>
            \A c \in {CtrlL, CtrlR}, a \in {AltL, AltR}, k \in {CChar, CVk} :
                (pressed_keys \ {F1} = {c, a, k}) =>
                    \A r \in {c, a, k} :
                        pressed_keys' = pressed_keys \ {r} => ~Satisfied']_vars

\* right Ctrl, left Alt and c are held on an active engine and have fired
C2_Witness ==
    /\ hotkey_string = DEFAULT_HOTKEY
    /\ active
    /\ pressed_keys = {CtrlR, AltL, CChar}
    /\ hotkey_latched

\* C6: set_hotkey with an invalid spec raises and leaves the engine exactly
\* as before: hotkey string, combination, active flag and callback.
C6_InvalidSetHotkeyKeepsEngine ==
    [][ret' = "HotkeyValidationError" =>
          /\ hotkey_string' = hotkey_string
          /\ hotkey_combination' = hotkey_combination
          /\ active' = active
          /\ callback' = callback]_vars

\* ------------------------------------------------------------------------
\* Directory history
\* ------------------------------------------------------------------------
\* C3: the history never has more than 15 entries, its paths are pairwise
\* distinct and non-empty, and every usage count is at least 1.
C3_HistoryInvariant ==
    /\ Len(directory_history) <= DEFAULT_MAX_HISTORY_ENTRIES
    /\ \A i, j \in 1..Len(directory_history) :
          directory_history[i].path = directory_history[j].path => i = j
    /\ \A i \in 1..Len(directory_history) :
          /\ directory_history[i].path # EmptyPath
          /\ directory_history[i].path # NotAString
          /\ directory_history[i].usage_count >= 1

\* a full history that has taken a further new path
C3_Witness ==
    /\ Len(directory_history) = DEFAULT_MAX_HISTORY_ENTRIES
    /\ directory_history[1].path > DEFAULT_MAX_HISTORY_ENTRIES + 1

\* C4: recording a (non-empty) path that has an entry moves the entry to
\* index 0 with its usage count one higher and leaves the length and the
\* other entries, in their order, as they were; recording a (non-empty) path
\* without an entry puts a new entry with usage count 1 at index 0.
C4_PromoteOnReuse ==
    [][\A d \in 1..MaxPaths :
          IsConfigCall("add_directory_to_history", d) =>
             IF d \in PathsOf(directory_history)
             THEN /\ directory_history'[1] =
                        DirectoryEntry(d,
                            directory_history[ExistingIndex(directory_history, d)]
                                .usage_count + 1)
                  /\ Len(directory_history') = Len(directory_history)
                  /\ Tail(directory_history') =
                        SelectSeq(directory_history, LAMBDA e : e.path # d)
             ELSE directory_history'[1] = DirectoryEntry(d, 1)]_vars

\* A, B, A were recorded into an empty history
C4_Witness ==
    /\ directory_history = <<DirectoryEntry(1, 2), DirectoryEntry(2, 1)>>
    /\ next_fresh = 3

\* the history that k new paths recorded in a row leave behind; the last
\* one recorded is next_fresh - 1
RunHistory(k) ==
    [i \in 1..(IF k < DEFAULT_MAX_HISTORY_ENTRIES
               THEN k ELSE DEFAULT_MAX_HISTORY_ENTRIES) |->
        DirectoryEntry(next_fresh - i, 1)]

\* C5: k distinct paths recorded into an empty history leave min(k, 15)
\* entries, the most recently recorded ones, most recent first; a new path
\* recorded into a full history drops exactly the last entry.
C5_BoundedMostRecentFirst ==
    /\ [](fresh_run >= 0 => directory_history = RunHistory(fresh_run))
    /\ [][\A d \in 1..MaxPaths :
             (/\ IsConfigCall("add_directory_to_history", d)
              /\ Len(directory_history) = DEFAULT_MAX_HISTORY_ENTRIES
              /\ d \notin PathsOf(directory_history)) =>
                 directory_history' =
                    <<DirectoryEntry(d, 1)>>
                    \o SubSeq(directory_history, 1,
                              DEFAULT_MAX_HISTORY_ENTRIES - 1)]_vars

\* seventeen distinct paths were recorded into an empty history
C5_Witness ==
    /\ fresh_run = DEFAULT_MAX_HISTORY_ENTRIES + 2
    /\ Len(directory_history) = DEFAULT_MAX_HISTORY_ENTRIES

\* ------------------------------------------------------------------------
\* Hotkey engine: the callback worker
\* ------------------------------------------------------------------------
\* the submissions whose user callback was started
Started == {started[i] : i \in 1..Len(started)}

\* the place of a started submission in the order of starts
StartPos(id) == CHOOSE i \in 1..Len(started) : started[i] = id

\* C7: at any moment at most one invocation of the user callback is
\* executing, whatever the interleaving of key events, register, unregister
\* and set_hotkey.
C7_OneInvocationInFlight == Cardinality(Running) <= 1

\* C8: unregister does not wait for a running invocation and leaves it
\* running; a submission that was still queued when unregister ran is never
\* started afterwards; nothing is submitted while the engine is inactive.
C8_UnregisterCancelsQueued ==
    /\ [](\A id \in cancelled : id \notin Started)
    /\ [][(active /\ ~active') =>
             \A e \in Running : executors'[e].running = executors[e].running]_vars
    /\ [][~active => dispatched' = dispatched]_vars

\* C9: a submission made while an earlier invocation is running is queued,
\* not dropped and not run concurrently: invocations of one registration
\* start in the order of their presses, each after the earlier ones have
\* finished, and as long as the engine stays registered every submission is
\* eventually started.
C9_SecondPressIsQueued ==
    /\ [](\A i, j \in 1..dispatched :
            (i < j /\ submitted_to[i] = submitted_to[j] /\ j \in Started) =>
               /\ i \in Started \cup skipped
               /\ i \in Started => StartPos(i) < StartPos(j)
               /\ executors[submitted_to[i]].running # i)
    /\ \A id \in 1..MaxDispatch :
          (dispatched >= id) ~> (id \in Started \/ id \in cancelled)

\* the second press was queued behind the running first invocation and ran
\* after it on the same worker
C9_Witness ==
    /\ started = <<1, 2>>
    /\ 2 \in queued_behind
    /\ submitted_to = <<1, 1>>
    /\ cancelled = {}

\* C10: whenever the user callback is executing the engine lock is free, so
\* key events and unregister are processed while a callback is running,
\* however long it runs.
C10_CallbackOutsideLock ==
    Running # {} =>
       /\ lock = "free"
       /\ ENABLED Unregister
       /\ \A key \in WorkerKeys :
             /\ ENABLED OnRelease(key)
             /\ dispatched < MaxDispatch => ENABLED OnPress(key)

\* while the first invocation was still running, a release and a further
\* completing press were handled
C10_Witness ==
    /\ Running # {}
    /\ 1 \in Started
    /\ executors[1].running = 1
    /\ 2 \in queued_behind

\* ------------------------------------------------------------------------
\* Configuration store
\* ------------------------------------------------------------------------
\* two threads calling into the configuration loaded from a file
NextThreads ==
    \/ \E t \in Threads : \E call \in ThreadCalls(t) : ThreadCall(t, call)
    \/ \E t \in Threads : ThreadAcquire(t)
    \/ \E t \in Threads : ThreadRead(t)
    \/ \E t \in Threads : ThreadWrite(t)
    \/ \E t \in Threads : ThreadRelease(t)

SpecThreads == InitConfig /\ [][NextThreads]_vars

\* every thread has made exactly one call and has left it
OneCallEach ==
    \A t \in Threads : threads[t].pc = "idle" /\ threads[t].calls = 1

\* C11: calls that change the configuration are atomic with respect to one
\* another: every call writes the configuration that results from applying
\* it to the configuration as it is at the moment of the write, so after
\* two threads have each made one call concurrently (two adds of different
\* new paths, an add with a remove, an add with an update of another field)
\* the configuration and its file reflect both calls.
C11_NoLostUpdate ==
    /\ [][\A t \in Threads :
            (threads[t].pc = "read" /\ threads'[t].pc = "written") =>
                CachedConfig' = ApplyCall(threads[t].op, threads[t].arg,
                                          CachedConfig)]_vars
    /\ [](OneCallEach =>
            \A t \in Threads :
               /\ threads[t].op = "add_directory_to_history" =>
                     /\ threads[t].arg \in PathsOf(directory_history)
                     /\ config_file = ModelDump(CachedConfig)
               /\ threads[t].op = "remove_from_history" =>
                     threads[t].arg \notin PathsOf(directory_history)
               /\ (/\ threads[t].op = "update_config"
                   /\ \A u \in Threads \ {t} : threads[u].op # "update_config") =>
                     last_directory = threads[t].arg)

\* two threads recorded different new paths in overlapping calls and both
\* paths are in the history
C11_Witness ==
    /\ OneCallEach
    /\ \A t \in Threads : threads[t].op = "add_directory_to_history"
    /\ threads[2].overlapped
    /\ Len(directory_history) = DEFAULT_MAX_HISTORY_ENTRIES
    /\ directory_history[1].path = ThreadPath(1)
    /\ directory_history[2].path = ThreadPath(2)

\* the persisted history is a plain list of path strings
LegacyFile ==
    /\ config_file.directory_history.is_list
    /\ config_file.directory_history.items # <<>>
    /\ \A i \in 1..Len(config_file.directory_history.items) :
          config_file.directory_history.items[i].kind = "str"

\* the position at which a path occurs first in the persisted list
FirstSeen(path) ==
    CHOOSE i \in 1..Len(config_file.directory_history.items) :
        /\ config_file.directory_history.items[i].path = path
        /\ \A j \in 1..(i-1) :
              config_file.directory_history.items[j].path # path

\* the distinct non-empty paths of the persisted list
LegacyPaths ==
    {config_file.directory_history.items[i].path :
        i \in 1..Len(config_file.directory_history.items)} \ {EmptyPath}

\* C16: a configuration constructed from a plain list of path strings has
\* one entry per distinct non-empty path, in first-seen order, each with
\* usage_count 1, and only the first 15 distinct paths.
C16_LegacyMigration ==
    (last_config_call.op = "load_config" /\ LegacyFile) =>
       /\ Len(directory_history) =
             IF Cardinality(LegacyPaths) < DEFAULT_MAX_HISTORY_ENTRIES
             THEN Cardinality(LegacyPaths) ELSE DEFAULT_MAX_HISTORY_ENTRIES
       /\ \A k \in 1..Len(directory_history) :
             /\ directory_history[k].path \in LegacyPaths
             /\ directory_history[k].usage_count = 1
             /\ \A l \in 1..Len(directory_history) :
                   k < l => FirstSeen(directory_history[k].path)
                               < FirstSeen(directory_history[l].path)
             /\ \A q \in LegacyPaths :
                   FirstSeen(q) < FirstSeen(directory_history[k].path) =>
                      q \in PathsOf(directory_history)

\* a list of 18 strings with an empty one and a duplicate was cut to its
\* first 15 distinct paths
C16_Witness ==
    /\ last_config_call.op = "load_config"
    /\ LegacyFile
    /\ Len(config_file.directory_history.items) > DEFAULT_MAX_HISTORY_ENTRIES
    /\ Len(directory_history) = DEFAULT_MAX_HISTORY_ENTRIES
    /\ directory_history[DEFAULT_MAX_HISTORY_ENTRIES].path = 15

\* C12: recording the empty path has no side effect on the history: after
\* add_directory_to_history("") the history has the same entries in the
\* same order as before, whatever its length.
C12_EmptyPathNoEffect ==
    [][IsConfigCall("add_directory_to_history", EmptyPath) =>
          directory_history' = directory_history]_vars

\* ------------------------------------------------------------------------
\* Application start-up
\* ------------------------------------------------------------------------
\* persisted histories with unusable entries among usable ones
DamagedHistories ==
    { RawList(<<>>),
      RawList(<<RawDict(1, 1), RawDict(EmptyPath, 1), RawOther,
                RawDict(NotAString, 1), RawDict(2, 2)>>),
      RawList(<<RawDict(1, 1), RawDict(2, 0), RawDict(3, 1)>>) }

\* configuration files the application is started on
PersistedConfigs ==
    {PersistedFile(h, v) : h \in StoredHotkeys, v \in DamagedHistories}

\* the process before EasyClaudeApp() has run: the configuration is loaded,
\* no hotkey manager exists yet
InitApp ==
    /\ \E file \in PersistedConfigs : InitStore(file)
    /\ app = "starting"
    /\ NoShell
    /\ hotkey_string = EmptyHotkey
    /\ hotkey_combination = <<>>
    /\ FreshEngine

\* EasyClaudeApp.__init__: the window is created, then
\* HotkeyManager(self.config.hotkey), then
\* self.hotkey_manager.register(self.show_gui); a HotkeyValidationError of
\* the constructor is not caught
EasyClaudeAppInit ==
    LET parsed == Parsed[config_hotkey]
    IN  /\ app = "starting"
        /\ hotkey_string' = config_hotkey
        /\ hotkey_combination' = parsed.combination
        /\ IF parsed.ok
           THEN /\ callback' = "show_gui"
                /\ executors' = Append(executors, NewExecutor)
                /\ executor' = Len(executors) + 1
                /\ listeners' = Append(listeners, "running")
                /\ listener' = Len(listeners) + 1
                /\ active' = TRUE
                /\ scenario' = [pos |-> 0, fires |-> 0]
                /\ ret' = "True"
                /\ app' = "initialized"
           ELSE /\ ret' = "HotkeyValidationError"
                /\ app' = "HotkeyValidationError"
                /\ UNCHANGED <<callback, executors, executor, listeners,
                               listener, active, scenario>>
        /\ UNCHANGED <<pressed_keys, pressed_key_tokens, hotkey_latched, lock,
                       dispatched, submitted_to, started, cancelled, skipped,
                       queued_behind, fires_in_hold>>
        /\ gui' = "initialized"
        /\ UNCHANGED <<running, tray_running, icon, tray_thread, cleanups>>
        /\ UNCHANGED <<history_vars, store_vars, held>>

\* the listener of the running application delivers a key event
AppPress(key) == app = "initialized" /\ KeyPress(key)
AppRelease(key) == app = "initialized" /\ KeyRelease(key)

NextApp ==
    \/ EasyClaudeAppInit
    \/ \E key \in WorkerKeys : AppPress(key)
    \/ \E key \in WorkerKeys : AppRelease(key)

SpecApp == InitApp /\ [][NextApp]_vars

\* an item of a persisted history that can be made into an entry
Usable(item) ==
    /\ item.kind = "dict"
    /\ item.path \notin {EmptyPath, NotAString}
    /\ item.usage_count >= 1

\* the usable items of a persisted history, in their order
UsableEntries(v) ==
    LET items == SelectSeq(v.items, Usable)
    IN  [i \in 1..Len(items) |-> DirectoryEntry(items[i].path, items[i].usage_count)]

\* C13: when the persisted history holds unusable entries (wrong type,
\* missing or empty path, usage count below 1), loading discards only them:
\* the loaded history is the usable entries of the file in their order, and
\* the other settings of the file, such as the hotkey, are kept.
C13_LoadDiscardsOnlyBadEntries ==
    (last_config_call.op = "load_config"
        /\ Len(config_file.directory_history.items) <= DEFAULT_MAX_HISTORY_ENTRIES
        /\ \A i, j \in 1..Len(config_file.directory_history.items) :
              (i # j) => config_file.directory_history.items[i].path
                            # config_file.directory_history.items[j].path
                         \/ ~Usable(config_file.directory_history.items[i])) =>
       /\ directory_history = UsableEntries(config_file.directory_history)
       /\ config_hotkey = ValidateHotkey(config_file.hotkey)

\* C14: a configuration whose stored hotkey is invalid does not leave the
\* started application without a hotkey: start-up ends with an active
\* engine, and when the stored hotkey does not parse the engine's hotkey is
\* the default ctrl+alt+c.
C14_InvalidStoredHotkeyFallsBack ==
    app # "starting" =>
       /\ app = "initialized"
       /\ active
       /\ listener # 0
       /\ ~ParseHotkey(ValidateHotkey(config_file.hotkey)).ok =>
             hotkey_string = DEFAULT_HOTKEY

\* ------------------------------------------------------------------------
\* History operations on a file that cannot always be written
\* ------------------------------------------------------------------------
\* save_config returns True, or False after an OSError
NextSave ==
    \/ \E d \in PathInputs : \E save_ok \in BOOLEAN :
          d <= MaxSavePaths /\ AddDirectoryToHistory(d, save_ok)
    \/ \E d \in PathInputs : \E save_ok \in BOOLEAN :
          d <= MaxSavePaths /\ RemoveFromHistory(d, save_ok)
    \/ \E save_ok \in BOOLEAN : ClearHistory(save_ok)

SpecSave == InitConfig /\ [][NextSave]_vars

RunningListeners == {l \in 1..Len(listeners) : listeners[l] = "running"}
LiveExecutors == {e \in 1..Len(executors) : ~executors[e].shutdown}

\* C17: register returns False and changes neither callback, listener nor
\* active flag when the engine is already active; it returns False and
\* leaves the engine inactive when the callback is empty; otherwise it
\* stores the callback, starts exactly one listener and one callback worker,
\* sets the engine active and returns True.
C17_Register ==
    [][\A cb \in Callbacks \cup {NoCallback} :
          Register(cb) =>
             IF active
             THEN /\ ret' = "False"
                  /\ callback' = callback
                  /\ listener' = listener
                  /\ active' = active
                  /\ listeners' = listeners
                  /\ executors' = executors
             ELSE IF cb = NoCallback
             THEN /\ ret' = "False"
                  /\ ~active'
                  /\ listeners' = listeners
                  /\ executors' = executors
             ELSE /\ ret' = "True"
                  /\ callback' = cb
                  /\ active'
                  /\ RunningListeners' = {listener'}
                  /\ Len(listeners') = Len(listeners) + 1
                  /\ LiveExecutors' = {executor'}
                  /\ Len(executors') = Len(executors) + 1]_vars

\* a register on the active engine was turned down: one listener runs
C17_Witness ==
    /\ active
    /\ ret = "False"
    /\ callback = "show_gui"
    /\ listeners = <<"running">>
    /\ Len(executors) = 1

\* the engine after unregister
Unregistered ==
    /\ ~active
    /\ pressed_keys = {}
    /\ pressed_key_tokens = {}
    /\ ~hotkey_latched
    /\ callback = NoCallback
    /\ listener = 0
    /\ executor = 0

\* C18: after unregister, from any state, the engine is inactive, the
\* pressed keys are empty, the latch is off and no callback, listener or
\* worker is stored; unregister on an engine that is not registered changes
\* no state.
C18_Unregister ==
    [][Unregister =>
          /\ Unregistered'
          /\ ~active => engine_state' = engine_state]_vars

\* C18 (amended): as C18, but unregister on an engine that is not
\* registered still clears the keys recorded by key events that were
\* handled while it was inactive; it changes nothing else, and nothing at
\* all when no such key is recorded (unregister directly after unregister).
C18_UnregisterClearsKeys ==
    [][Unregister =>
          /\ Unregistered'
          /\ ~active =>
                /\ <<hotkey_string, hotkey_combination, callback, listener,
                     active, executor, hotkey_latched, lock, listeners,
                     executors, dispatched, submitted_to, started, cancelled,
                     skipped, queued_behind>>'
                   = <<hotkey_string, hotkey_combination, callback, listener,
                       active, executor, hotkey_latched, lock, listeners,
                       executors, dispatched, submitted_to, started,
                       cancelled, skipped, queued_behind>>
                /\ pressed_keys = {} => engine_state' = engine_state]_vars

\* an engine that was registered and used has been unregistered
C18_Witness ==
    /\ Unregistered
    /\ listeners = <<"stopped">>
    /\ Len(executors) = 1
    /\ executors[1].shutdown
    /\ dispatched >= 1
    /\ ret = "None"

\* C19: set_hotkey with a valid spec leaves the engine active exactly when
\* it was active before, registered with the same callback, with the new
\* string and its combination in place and one running listener; on an
\* inactive engine it changes only the hotkey and starts no listener.
C19_SetHotkeyValid ==
    [][\A s \in {h \in HotkeyInputs : Parsed[h].ok} :
          SetHotkey(s) =>
             /\ ret' = "True"
             /\ active' = active
             /\ callback' = callback
             /\ hotkey_string' = s
             /\ hotkey_combination' = Parsed[s].combination
             /\ active =>
                   /\ RunningListeners' = {listener'}
                   /\ LiveExecutors' = {executor'}
             /\ ~active =>
                   /\ listeners' = listeners
                   /\ executors' = executors
                   /\ <<listener, executor, pressed_keys, pressed_key_tokens,
                        hotkey_latched, dispatched>>'
                      = <<listener, executor, pressed_keys, pressed_key_tokens,
                          hotkey_latched, dispatched>>]_vars

\* the hotkey of a registered engine was changed to ctrl_r+c: the second
\* listener runs for the same callback
C19_Witness ==
    /\ active
    /\ hotkey_string = CtrlRC
    /\ hotkey_combination = Parsed[CtrlRC].combination
    /\ callback = "show_gui"
    /\ listeners = <<"stopped", "running">>
    /\ ret = "True"

\* ------------------------------------------------------------------------
\* Callbacks that raise
\* ------------------------------------------------------------------------
WorkerRaiseOf(e) == e \in 1..Len(executors) /\ WorkerRaise(e)

\* the engine with its worker threads and a callback that may raise
NextRaise ==
    \/ NextWorkers
    \/ \E e \in 1..MaxRegistrations : WorkerRaiseOf(e)

SpecRaise == InitWorkers /\ [][NextRaise]_vars

\* C20: an exception of the user callback stops at safe_callback: the step
\* in which it is raised changes nothing the key handlers or the caller
\* see, the active engine keeps its running listener and a worker that
\* accepts work, and the next completed press is submitted again.
C20_CallbackExceptionCaught ==
    /\ [][\A e \in 1..MaxRegistrations :
             WorkerRaiseOf(e) =>
                /\ <<active, callback, listener, listeners, executor, lock,
                     ret, pressed_keys, hotkey_latched>>'
                   = <<active, callback, listener, listeners, executor, lock,
                       ret, pressed_keys, hotkey_latched>>
                /\ executors'[e].shutdown = executors[e].shutdown
                /\ executors'[e].queue = executors[e].queue]_vars
    /\ [](active =>
             /\ listener # 0
             /\ listeners[listener] = "running"
             /\ executor # 0
             /\ ~executors[executor].shutdown)
    /\ [][(/\ active
           /\ executors[executor].raised
           /\ ~Satisfied
           /\ Satisfied') =>
             /\ dispatched' = dispatched + 1
             /\ dispatched' \in QueuedOn(executor)']_vars

\* the first invocation raised; the combination was completed again and the
\* second invocation runs on the same worker
C20_Witness ==
    /\ active
    /\ executor = 1
    /\ executors[1].raised
    /\ started = <<1, 2>>
    /\ executors[1].running = 2
    /\ listeners = <<"running">>

\* ------------------------------------------------------------------------
\* Parsing hotkey strings
\* ------------------------------------------------------------------------
\* ", ".join(invalid_keys)
RECURSIVE JoinComma(_)
JoinComma(parts) ==
    IF parts = <<>> THEN ""
    ELSE IF Len(parts) = 1 THEN Join(Head(parts))
    ELSE Join(Head(parts)) \o ", " \o JoinComma(Tail(parts))

\* the HotkeyValidationError _parse_hotkey raises for a string
ParseError(parsed) ==
    IF parsed.invalid_keys # <<>>
    THEN "Unknown key(s) in hotkey: " \o JoinComma(parsed.invalid_keys)
    ELSE "Hotkey string cannot be empty"

\* a caller is about to construct HotkeyManager(hotkey_string)
InitParse ==
    /\ hotkey_string \in ParseSpecs
    /\ hotkey_combination = <<>>
    /\ FreshEngine
    /\ DefaultHistory

\* HotkeyManager.__init__: the fields are set and _parse_hotkey runs; its
\* HotkeyValidationError reaches the caller
HotkeyManagerInit ==
    LET parsed == Parsed[hotkey_string]
    IN  /\ ret = "None"
        /\ hotkey_combination = <<>>
        /\ hotkey_combination' = parsed.combination
        /\ ret' = IF parsed.ok THEN "HotkeyManager" ELSE ParseError(parsed)
        /\ UNCHANGED <<hotkey_string, callback, listener, pressed_keys,
                       pressed_key_tokens, active, executor, hotkey_latched,
                       lock, listeners, executors, dispatched, submitted_to,
                       started, cancelled, skipped, queued_behind, scenario,
                       fires_in_hold>>
        /\ UNCHANGED <<config_vars, held>>

\* set_hotkey on the manager that was constructed
SetHotkeyOf(s) == ret \in {"HotkeyManager", "True", "HotkeyValidationError"} /\ SetHotkey(s)

NextParse ==
    \/ HotkeyManagerInit
    \/ \E s \in ParseSpecs : SetHotkeyOf(s)

SpecParse == InitParse /\ [][NextParse]_vars

\* the parts of a string as the specification counts them
PartsOf(s) == SplitPlus(RemoveSpaces(LowerStr(s)))

\* the modifier aliases of the specification
ModifierNames ==
    { <<"c","t","r","l">>, <<"c","o","n","t","r","o","l">>, <<"a","l","t">>,
      <<"s","h","i","f","t">>, <<"c","m","d">>, <<"w","i","n">>,
      <<"m","e","t","a">>, <<"c","o","m","m","a","n","d">>,
      <<"c","t","r","l","_","r">>, <<"c","o","n","t","r","o","l","_","r">>,
      <<"a","l","t","_","r">>, <<"s","h","i","f","t","_","r">>,
      <<"c","m","d","_","r">>, <<"w","i","n","_","r">>,
      <<"m","e","t","a","_","r">> }

\* a part that names a modifier, a character or a special key
Recognised(part) ==
    part \in ModifierNames \/ Len(part) = 1 \/ part \in KeyEnum

Unrecognised(s) == SelectSeq(PartsOf(s), LAMBDA p : ~Recognised(p))

\* C21: the constructor fails on every string that is empty or blank or has
\* a part that is no modifier alias, no single character and no named
\* special key: it stores no combination and its one error names all the
\* unrecognised parts.
C21_InvalidSpecsRejected ==
    ret # "None" =>
       /\ (hotkey_string = <<>> \/ IsBlank(hotkey_string)) =>
             /\ hotkey_combination = <<>>
             /\ ret = "Hotkey string cannot be empty"
       /\ (~IsBlank(hotkey_string) /\ Unrecognised(hotkey_string) # <<>>) =>
             /\ hotkey_combination = <<>>
             /\ ret = "Unknown key(s) in hotkey: "
                      \o JoinComma(Unrecognised(hotkey_string))

\* C22: for every string the constructor accepts, the string in upper case
\* and the string with spaces added at its ends and around each "+" are
\* accepted too and give the same combination.
C22_CaseAndSpaceInsensitive ==
    (ret = "HotkeyManager" /\ hotkey_string \in BaseSpecs) =>
       \A t \in {UpperStr(hotkey_string), Spaced(hotkey_string)} :
          /\ Parsed[t].ok
          /\ Parsed[t].combination = hotkey_combination

\* a string that is the same after str.upper() and then str.lower(): every
\* character becomes one character in upper case and comes back from it
CaseRoundTrips(s) ==
    \A i \in 1..Len(s) :
       /\ Len(UpperChar(s[i])) = 1
       /\ LowerChar(UpperChar(s[i])[1]) = LowerChar(s[i])

\* C22 for the strings that survive the round trip through upper case: the
\* string in upper case (if it survives) and the string with spaces added
\* are accepted and give the same combination, in a table look-up and in a
\* call of set_hotkey on the manager constructed from the string.
C22_CaseAndSpaceInsensitiveRoundTrip ==
    /\ []((ret = "HotkeyManager" /\ hotkey_string \in BaseSpecs) =>
            /\ Parsed[Spaced(hotkey_string)].ok
            /\ Parsed[Spaced(hotkey_string)].combination = hotkey_combination
            /\ CaseRoundTrips(hotkey_string) =>
                  /\ Parsed[UpperStr(hotkey_string)].ok
                  /\ Parsed[UpperStr(hotkey_string)].combination
                     = hotkey_combination)
    /\ [][(/\ hotkey_string \in BaseSpecs
           /\ hotkey_string' # hotkey_string
           /\ hotkey_string' \in {UpperStr(hotkey_string), Spaced(hotkey_string)})
          => hotkey_combination' = hotkey_combination]_vars

\* HotkeyManager("control_r+c") and then set_hotkey("CONTROL_R+C")
C22_Witness ==
    /\ hotkey_string = UpperStr(<<"c","o","n","t","r","o","l","_","r","+","c">>)
    /\ ret = "True"
    /\ hotkey_combination = <<CtrlR, CChar>>

\* ------------------------------------------------------------------------
\* Hotkeys written with a right-side modifier
\* ------------------------------------------------------------------------
\* a manager constructed for a hotkey of a right-side modifier and c
InitSides ==
    /\ hotkey_string \in {p.sided : p \in SidedPairs}
    /\ hotkey_combination = Parsed[hotkey_string].combination
    /\ FreshEngine
    /\ DefaultHistory

\* the manager is registered once, and the modifier keys of both sides and
\* the key c go down and up, up to MaxHeld of them down at a time
NextSides ==
    \/ \E key \in SideKeys :
          Cardinality(pressed_keys \cup {key}) <= MaxHeld /\ KeyPress(key)
    \/ \E key \in SideKeys : KeyRelease(key)
    \/ Register("show_gui")

SpecSides == InitSides /\ [][NextSides]_vars

\* C23: whatever keys are held, a hotkey written with a right-side modifier
\* is satisfied exactly when the hotkey written with the plain modifier is;
\* ctrl_r+c is satisfied while left Ctrl and c are held, and completing it
\* with the left key on a registered engine submits the callback.
C23_RightSuffixMatchesEitherSide ==
    /\ [](\A p \in SidedPairs :
            IsHotkeyPressed(Parsed[p.sided].combination, pressed_keys)
            = IsHotkeyPressed(Parsed[p.plain].combination, pressed_keys))
    /\ []((hotkey_string = CtrlRC /\ {CtrlL, CChar} \subseteq pressed_keys)
            => Satisfied)
    /\ [][(/\ hotkey_string \in {p.sided : p \in SidedPairs}
           /\ active
           /\ ~Satisfied
           /\ Satisfied')
          => dispatched' = dispatched + 1]_vars

\* ctrl_r+c registered, then left Ctrl and c pressed and nothing else
C23_Witness ==
    /\ hotkey_string = CtrlRC
    /\ active
    /\ pressed_keys = {CtrlL, CChar}
    /\ dispatched = 1

\* ------------------------------------------------------------------------
\* The keyboard behind the hook
\* ------------------------------------------------------------------------
\* the physical keys of the default hotkey
PhysicalKeys == {"ctrl_l", "alt_l", "c"}

\* the key objects the hook may deliver for a physical key: a character
\* key arrives as a character or as a virtual-key code, depending on the
\* modifiers that are down
Reports(p) ==
    CASE p = "ctrl_l" -> {CtrlL}
      [] p = "alt_l" -> {AltL}
      [] p = "c" -> {CChar, CVk}

\* a physical key goes down and the listener calls _on_press
HookPress(p, key) ==
    /\ p \notin held
    /\ key \in Reports(p)
    /\ held' = held \cup {p}
    /\ OnPress(key)

\* a physical key goes up and the listener calls _on_release
HookRelease(p, key) ==
    /\ p \in held
    /\ key \in Reports(p)
    /\ held' = held \ {p}
    /\ OnRelease(key)

\* the engine of the default hotkey, registered once, behind a keyboard
NextHook ==
    \/ Register("show_gui")
    \/ \E p \in PhysicalKeys : \E key \in Reports(p) : HookPress(p, key)
    \/ \E p \in PhysicalKeys : \E key \in Reports(p) : HookRelease(p, key)

SpecHook == InitWorkers /\ [][NextHook]_vars

\* C24: a release removes the key however the hook reported its press: once
\* every physical key is up PressState is empty and the combination is not
\* satisfied, and no press fires the callback while the key c is up.
C24_ReleaseRemovesKey ==
    /\ [](held = {} => pressed_keys = {} /\ ~Satisfied)
    /\ [][dispatched' # dispatched => "c" \in held']_vars

\* ------------------------------------------------------------------------
\* A launch from the launcher window
\* ------------------------------------------------------------------------
\* LauncherGUI._do_launch for the directory typed into the window, with the
\* launch thread it starts: _update_recent_directories records the
\* directory, EasyClaudeApp._on_launch stores it as last_directory, and
\* ClaudeLauncher.launch starts the terminal and on success records the
\* directory. is_dir is os.path.isdir(directory), launch_ok is whether
\* launch_claude returns without raising; the file can be written
LaunchFromWindow(directory, is_dir, launch_ok) ==
    LET recorded == ApplyCall("add_directory_to_history", directory, CachedConfig)
        updated == UpdatedConfig(recorded, directory)
        launched ==
            IF launch_ok
            THEN ApplyCall("add_directory_to_history", directory, updated)
            ELSE updated
    IN  /\ config_lock = 0
        /\ directory = next_fresh => next_fresh <= MaxPaths
        /\ \A i \in 1..Len(directory_history) :
              directory_history[i].path = directory =>
                  directory_history[i].usage_count < MaxUsage
        /\ last_config_call' = ConfigCall("_do_launch", directory)
        /\ IF directory = EmptyPath
           THEN /\ ret' = "showwarning"
                /\ UNCHANGED <<directory_history, next_fresh, fresh_run,
                               config_hotkey, last_directory, config_file>>
           ELSE IF ~is_dir
           THEN /\ ret' = "showerror"
                /\ UNCHANGED <<directory_history, next_fresh, fresh_run,
                               config_hotkey, last_directory, config_file>>
           ELSE /\ ret' = IF launch_ok THEN "True" ELSE "False"
                /\ directory_history' = launched.directory_history
                /\ config_hotkey' = launched.hotkey
                /\ last_directory' = launched.last_directory
                /\ config_file' = ModelDump(launched)
                /\ next_fresh' = IF directory = next_fresh THEN next_fresh + 1
                                 ELSE next_fresh
                /\ fresh_run' = -1
        /\ UNCHANGED <<engine_state, config_lock, threads, app, shell_vars, held>>

\* launches from the window, and the history cleared now and then
NextLaunch ==
    \/ \E d \in PathInputs : \E is_dir, launch_ok \in BOOLEAN :
          d <= MaxSavePaths /\ LaunchFromWindow(d, is_dir, launch_ok)
    \/ ClearHistory(TRUE)

SpecLaunch == InitConfig /\ [][NextLaunch]_vars

\* C25: a launch from the window whose terminal launch succeeds records the
\* directory exactly once (a new entry with count 1, or the count of its
\* entry one higher), and one whose terminal launch fails leaves the history
\* as it was.
C25_LaunchRecordsOnce ==
    [][\A d \in 1..MaxPaths :
          (IsConfigCall("_do_launch", d) /\ ret' \in {"True", "False"}) =>
             IF ret' = "True"
             THEN directory_history' = NewHistory(directory_history, d)
             ELSE directory_history' = directory_history]_vars

\* ------------------------------------------------------------------------
\* Running and ending the application
\* ------------------------------------------------------------------------
\* TrayManager.stop: the icon's message loop is asked to end
TrayStopped ==
    /\ tray_running' = (IF icon # "none" /\ tray_running THEN FALSE ELSE tray_running)
    /\ icon' = (IF icon # "none" /\ tray_running THEN "stopping" ELSE icon)

\* EasyClaudeApp.shutdown as called by the main thread: nothing when
\* _running is not set, otherwise the flag is cleared, the hotkey is
\* unregistered, the tray icon is stopped and the window is destroyed
Shutdown ==
    IF ~running
    THEN UNCHANGED <<hotkey_string, hotkey_combination, callback, listener,
                     pressed_keys, pressed_key_tokens, active, executor,
                     hotkey_latched, lock, listeners, executors, dispatched,
                     submitted_to, started, cancelled, skipped, queued_behind,
                     scenario, fires_in_hold, running, tray_running, icon, gui,
                     cleanups>>
    ELSE /\ running' = FALSE
         /\ cleanups' = cleanups + 1
         /\ listeners' = StoppedListeners
         /\ listener' = 0
         /\ executors' = ShutDownExecutors
         /\ executor' = 0
         /\ callback' = NoCallback
         /\ active' = FALSE
         /\ hotkey_latched' = FALSE
         /\ pressed_keys' = {}
         /\ pressed_key_tokens' = {}
         /\ cancelled' = cancelled \cup PendingAtUnregister
         /\ scenario' = ScenarioOff
         /\ fires_in_hold' = 0
         /\ TrayStopped
         /\ gui' = "destroyed"
         /\ UNCHANGED <<hotkey_string, hotkey_combination, lock, dispatched,
                        submitted_to, started, skipped, queued_behind>>

\* EasyClaudeApp.run up to its loop: the flag is set, the signal handlers
\* are installed and the tray thread is started
AppRun ==
    /\ app = "initialized"
    /\ app' = "loop"
    /\ running' = TRUE
    /\ tray_thread' = "started"
    /\ ret' = "None"
    /\ UNCHANGED <<engine_state, history_vars, store_vars, tray_running, icon,
                   gui, cleanups, held>>

\* the loop of run finds _running cleared: finally calls shutdown, the tray
\* thread is joined and run returns
MainLoopEnds ==
    /\ app = "loop"
    /\ lock = "free"
    /\ ~running
    /\ Shutdown
    /\ app' = "finished"
    /\ ret' = "None"
    /\ UNCHANGED <<history_vars, store_vars, tray_thread, held>>

\* KeyboardInterrupt in the loop of run: logged, then finally calls shutdown
KeyboardInterruptInLoop ==
    /\ app = "loop"
    /\ lock = "free"
    /\ Shutdown
    /\ app' = "finished"
    /\ ret' = "KeyboardInterrupt"
    /\ UNCHANGED <<history_vars, store_vars, tray_thread, held>>

\* SIGINT or SIGTERM while the main thread is in the loop: _signal_handler
\* calls shutdown and sys.exit(0); the finally of run calls shutdown once
\* more, which finds _running cleared
SignalHandler ==
    /\ app = "loop"
    /\ lock = "free"
    /\ Shutdown
    /\ app' = "finished"
    /\ ret' = "SystemExit"
    /\ UNCHANGED <<history_vars, store_vars, tray_thread, held>>

\* the tray thread enters TrayManager.start: the icon is created and its
\* message loop runs
TrayStart ==
    /\ tray_thread = "started"
    /\ ~tray_running
    /\ tray_thread' = "icon_run"
    /\ tray_running' = TRUE
    /\ icon' = "running"
    /\ UNCHANGED <<engine_vars, history_vars, store_vars, app, running, gui,
                   cleanups, held>>

\* the Exit item of the tray menu: TrayManager._on_exit calls stop
TrayExit ==
    /\ icon = "running"
    /\ TrayStopped
    /\ UNCHANGED <<engine_vars, history_vars, store_vars, app, running,
                   tray_thread, gui, cleanups, held>>

\* the message loop of the icon ends: start returns and the finally of
\* _run_tray_in_thread clears _running
TrayThreadEnds ==
    /\ tray_thread = "icon_run"
    /\ icon = "stopping"
    /\ icon' = "stopped"
    /\ running' = FALSE
    /\ tray_thread' = "done"
    /\ UNCHANGED <<engine_vars, history_vars, store_vars, app, tray_running,
                   gui, cleanups, held>>

\* the listener delivers key events while the application runs
RunPress(key) == app = "loop" /\ KeyPress(key)
RunRelease(key) == app = "loop" /\ KeyRelease(key)

NextRun ==
    \/ EasyClaudeAppInit
    \/ AppRun
    \/ MainLoopEnds
    \/ KeyboardInterruptInLoop
    \/ SignalHandler
    \/ TrayStart
    \/ TrayExit
    \/ TrayThreadEnds
    \/ \E key \in WorkerKeys : RunPress(key)
    \/ \E key \in WorkerKeys : RunRelease(key)

SpecRun == InitApp /\ [][NextRun]_vars

\* C26: when run has ended, whichever way, the clean-up of shutdown has been
\* performed exactly once: the hotkey is not active, the tray icon is not
\* running and the window is destroyed.
C26_ShutdownCleansUpOnce ==
    app = "finished" =>
       /\ cleanups = 1
       /\ ~active
       /\ ~tray_running
       /\ gui = "destroyed"

\* ------------------------------------------------------------------------
\* Invariants of the engine
\* ------------------------------------------------------------------------
\* C27: in every reachable state a set latch means that the engine is
\* active and that the keys in PressState satisfy the combination; when the
\* combination is not satisfied the latch is false.
C27_LatchImpliesSatisfied ==
    hotkey_latched => active /\ Satisfied

\* the callback was submitted, the latch was cleared by a release, and a
\* second completed press has set it again
C27_Witness ==
    /\ hotkey_latched
    /\ active
    /\ Satisfied
    /\ dispatched = 2
    /\ hotkey_string = DEFAULT_HOTKEY
    /\ pressed_keys = {CtrlR, AltL, CVk}

\* ------------------------------------------------------------------------
\* Hotkeys with special keys
\* ------------------------------------------------------------------------
\* a manager constructed for a hotkey the parser accepts
InitFire ==
    /\ hotkey_string \in FireHotkeys
    /\ Parsed[hotkey_string].ok
    /\ hotkey_combination = Parsed[hotkey_string].combination
    /\ FreshEngine
    /\ DefaultHistory

\* the key objects the hotkey names
NamedKeys == {hotkey_combination[i] : i \in 1..Len(hotkey_combination)}

\* the manager is registered and unregistered, and exactly the keys its
\* hotkey names go down and up
NextFire ==
    \/ \E key \in NamedKeys : KeyPress(key)
    \/ \E key \in NamedKeys : KeyRelease(key)
    \/ Register("show_gui")
    \/ Unregister

SpecFire == InitFire /\ [][NextFire]_vars

\* all the keys the hotkey names are in PressState
AllNamedHeld == NamedKeys \subseteq pressed_keys

\* C28: for every hotkey the parser accepts, holding the keys it names
\* satisfies the combination, and the press that completes them on a
\* registered engine submits the callback.
C28_AcceptedHotkeyCanFire ==
    /\ [](AllNamedHeld => Satisfied)
    /\ [][(active /\ ~AllNamedHeld /\ AllNamedHeld') =>
             dispatched' = dispatched + 1]_vars

\* C29: in every state reached by register, unregister, set_hotkey and key
\* events an active engine has a callback, a running listener and a worker
\* that has not been shut down, every submission goes to that worker, and
\* no step taken on an inactive engine submits the callback.
C29_ActiveEngineIsComplete ==
    /\ [](active =>
             /\ callback # NoCallback
             /\ listener # 0
             /\ listeners[listener] = "running"
             /\ executor # 0
             /\ ~executors[executor].shutdown)
    /\ [][dispatched' # dispatched =>
             /\ active
             /\ executor # 0
             /\ ~executors[executor].shutdown
             /\ submitted_to' = Append(submitted_to, executor)]_vars

\* registered, unregistered and registered again, with a submission to the
\* worker of each registration
C29_Witness ==
    /\ active
    /\ callback = "show_gui"
    /\ executor = 2
    /\ listeners = <<"stopped", "running">>
    /\ submitted_to = <<1, 2>>
    /\ ~executors[2].shutdown

\* ------------------------------------------------------------------------
\* The cached configuration and its file
\* ------------------------------------------------------------------------
\* update_config(last_directory=directory); save_ok is the result of
\* save_config
UpdateConfig(directory, save_ok) ==
    LET updated == UpdatedConfig(CachedConfig, directory)
    IN  /\ config_lock = 0
        /\ directory_history' = updated.directory_history
        /\ config_hotkey' = updated.hotkey
        /\ last_directory' = updated.last_directory
        /\ config_file' = IF save_ok THEN ModelDump(updated) ELSE config_file
        /\ ret' = IF save_ok THEN "True" ELSE "False"
        /\ last_config_call' = ConfigCall("update_config", directory)
        /\ UNCHANGED <<engine_state, next_fresh, fresh_run, config_lock,
                       threads, app, shell_vars, held>>

\* the operations that write the configuration, each with a write of the
\* file that succeeds or fails
NextStore ==
    \/ NextSave
    \/ \E d \in PathInputs : \E save_ok \in BOOLEAN :
          d <= MaxSavePaths /\ UpdateConfig(d, save_ok)

SpecStore == InitConfig /\ [][NextStore]_vars

\* the operations of the claim
WritingCalls ==
    {"add_directory_to_history", "remove_from_history", "clear_history",
     "update_config"}

\* C30: a call of add_directory_to_history, remove_from_history,
\* clear_history or update_config that returns false leaves the cached
\* configuration as it was, and the cached history is always the history
\* of the configuration file.
C30_FailedWriteKeepsCache ==
    /\ [][(/\ last_config_call'.op \in WritingCalls
           /\ UNCHANGED engine_state
           /\ ret' = "False")
          => CachedConfig' = CachedConfig]_vars
    /\ [](directory_history = LoadConfig(config_file).directory_history)

====
